---------------------------- MODULE Spec2Model ----------------------------
(***************************************************************************)
(* A model of kubectl-api-resource-versions: the discovery enumeration     *)
(* (getGroupResources), the filter predicates (excludeGroup,               *)
(* excludeGroupResource), the naming helpers (splitResourceName,           *)
(* unversionedResourceName, fullname) and the command run                  *)
(* (runAPIResourceVersions, printGroupResources).                          *)
(*                                                                         *)
(* Go strings that the program takes apart (resource names, group          *)
(* names, versions, group-version strings) are sequences of one-character  *)
(* strings, so that splitting, joining and parsing are computed.  Strings  *)
(* the program only compares as a whole (verbs, categories, output         *)
(* formats) are TLA+ strings.                                              *)
(***************************************************************************)
EXTENDS Integers, Sequences, FiniteSets, TLC

VARIABLES
    options,            \* *apiResourceVersionsOptions of the run
    pc,                 \* position of the run
    calls,              \* calls made on the discovery client, in order
    groupList,          \* getGroupResources: groupList.Groups
    preferredResources, \* getGroupResources: the preferred-version index
    gi,                 \* getGroupResources: index of the group being visited
    vi,                 \* processGroupResources: index of the version being visited
    groupResources,     \* processGroupResources: its local resources slice
    resources,          \* getGroupResources: its resources slice
    served,             \* the resource lists ServerResourcesForGroupVersion answered
    result,             \* what getGroupResources returned
    runErr,             \* what runAPIResourceVersions returned
    out,                \* rows written to the tab writer
    flushes,            \* number of Flush calls on the tab writer
    arg,                \* input of a function applied on its own
    ret                 \* its result

vars == <<options, pc, calls, groupList, preferredResources, gi, vi,
          groupResources, resources, served, result, runErr,
          out, flushes, arg, ret>>

runVars == <<options, pc, calls, groupList, preferredResources, gi, vi,
             groupResources, resources, served, result, runErr,
             out, flushes>>

---------------------------------------------------------------------------
(* Bounds *)

MaxNameLen == 3
MaxFilterLen == 2
MaxResources == 2
MaxSummary == 2

---------------------------------------------------------------------------
(* Strings *)

Slash == "/"
Dot == "."
Space == " "

\* All strings over an alphabet up to a length.
StringsUpTo(alphabet, n) == UNION {[1..k -> alphabet] : k \in 0..n}

\* strings.Contains(s, "/") for a one-character separator.
Contains(s, c) == \E i \in 1..Len(s) : s[i] = c

\* strings.Count(s, "/").
Count(s, c) == Cardinality({i \in 1..Len(s) : s[i] = c})

\* strings.Index(s, "/"), 1-based; 0 when absent.
Index(s, c) ==
    IF Contains(s, c)
    THEN CHOOSE i \in 1..Len(s) : s[i] = c /\ \A j \in 1..(i - 1) : s[j] # c
    ELSE 0

\* s[:i-1] and s[i+1:] around the 1-based position i.
Before(s, i) == SubSeq(s, 1, i - 1)
After(s, i) == SubSeq(s, i + 1, Len(s))

\* A *string: nil or a pointer to a string.
NilString == [isNil |-> TRUE, val |-> <<>>]
PtrString(s) == [isNil |-> FALSE, val |-> s]

\* strings.SplitN(s, "/", 2): one part, or the parts around the first "/".
SplitN2(s) ==
    IF Contains(s, Slash)
    THEN <<Before(s, Index(s, Slash)), After(s, Index(s, Slash))>>
    ELSE <<s>>

\* schema.ParseGroupVersion as called by the program.
ParseGroupVersion(gv) ==
    IF Len(gv) = 0 \/ gv = <<Slash>>
    THEN [err |-> FALSE, Group |-> <<>>, Version |-> <<>>]
    ELSE IF Count(gv, Slash) = 0
    THEN [err |-> FALSE, Group |-> <<>>, Version |-> gv]
    ELSE IF Count(gv, Slash) = 1
    THEN [err |-> FALSE, Group |-> Before(gv, Index(gv, Slash)),
          Version |-> After(gv, Index(gv, Slash))]
    ELSE [err |-> TRUE, Group |-> <<>>, Version |-> <<>>]

---------------------------------------------------------------------------
(* Naming helpers *)

\* splitResourceName cutting at the last "/" instead of the first.
splitResourceName_LastSlash(resourceName) ==
    IF ~Contains(resourceName, Slash)
    THEN [base |-> resourceName, sub |-> NilString]
    ELSE LET last == CHOOSE i \in 1..Len(resourceName) :
                         /\ resourceName[i] = Slash
                         /\ \A j \in (i + 1)..Len(resourceName) :
                                resourceName[j] # Slash
         IN  [base |-> Before(resourceName, last),
              sub |-> PtrString(After(resourceName, last))]

\* splitResourceName: the base name and, for a subresource, a pointer to
\* the subresource name.
splitResourceName(resourceName) ==
    LET parts == SplitN2(resourceName) IN
    IF Len(parts) = 1
    THEN [base |-> parts[1], sub |-> NilString]
    ELSE [base |-> parts[1], sub |-> PtrString(parts[2])]

\* resource is an APIResource: its Name and Group are read.
unversionedResourceName(resource) ==
    LET split == splitResourceName(resource.Name) IN
    [name |-> split.base \o <<Dot>> \o resource.Group, sub |-> split.sub]

\* A panic of the Go runtime, as the result of a call.
Panic == [panic |-> TRUE, val |-> <<>>]
Returned(v) == [panic |-> FALSE, val |-> v]

\* gr is a groupResource: APIGroup.Name, APIGroupVersion and APIResource.Name are read.
fullname(gr) ==
    LET groupVersion == ParseGroupVersion(gr.APIGroupVersion) IN
    IF groupVersion.err
    THEN Panic
    ELSE IF groupVersion.Group # gr.APIGroup.Name
    THEN Panic
    ELSE Returned(gr.APIResource.Name \o <<Dot>> \o groupVersion.Version
                  \o <<Dot>> \o gr.APIGroup.Name)

---------------------------------------------------------------------------
(* Options and records *)

wideOutput == "wide"
nameOutput == "name"
nameSortBy == "name"
kindSortBy == "kind"

\* newAPIResourceVersionsOptions: Namespaced is true, every other field has
\* its zero value.  IncludeSubresources is the field the tests set with
\* SetIncludeSubresources; no function of the program reads it.
newAPIResourceVersionsOptions ==
    [Output |-> "", SortBy |-> "", APIGroup |-> <<>>, Namespaced |-> TRUE,
     Verbs |-> <<>>, NoHeaders |-> FALSE, Cached |-> FALSE,
     Categories |-> <<>>, Preferred |-> FALSE,
     groupChanged |-> FALSE, nsChanged |-> FALSE, preferredChanged |-> FALSE,
     IncludeSubresources |-> FALSE]

\* metav1.GroupVersionForDiscovery
GroupVersionForDiscovery(gv, v) == [GroupVersion |-> gv, Version |-> v]

\* metav1.APIGroup
APIGroup(name, versions, preferredVersion) ==
    [Name |-> name, Versions |-> versions, PreferredVersion |-> preferredVersion]

\* metav1.APIResource: the fields the program reads.
APIResource(name, namespaced, kind, verbs, categories) ==
    [Name |-> name, Group |-> <<>>, Namespaced |-> namespaced, Kind |-> kind,
     ShortNames |-> <<>>, Verbs |-> verbs, Categories |-> categories]

\* The groupResource struct.
groupResource(group, groupVersion, apiResource, preferred) ==
    [APIGroup |-> group, APIGroupVersion |-> groupVersion,
     APIResource |-> apiResource, Preferred |-> preferred]

\* HasAll that is satisfied by one common element.
HasAll_Any(have, want) ==
    \E i \in 1..Len(want) : \E j \in 1..Len(have) : have[j] = want[i]

\* sets.New(have...).HasAll(want...)
HasAll(have, want) ==
    \A i \in 1..Len(want) : \E j \in 1..Len(have) : have[j] = want[i]

---------------------------------------------------------------------------
(* Filter predicates *)

\* excludeGroup that takes an empty filter for an unset one.
excludeGroup_EmptyIsUnset(group, opts) ==
    IF opts.APIGroup # <<>> /\ opts.APIGroup # group.Name
    THEN TRUE
    ELSE FALSE

excludeGroup(group, opts) ==
    IF opts.groupChanged /\ opts.APIGroup # group.Name
    THEN TRUE
    ELSE FALSE

\* excludeGroupResource that compares the namespaced flag whether or not
\* the criterion was set.
excludeGroupResource_NsAlways(resource, opts) ==
    IF Contains(resource.APIResource.Name, Slash)
    THEN TRUE
    ELSE IF opts.Namespaced # resource.APIResource.Namespaced
    THEN TRUE
    ELSE IF Len(opts.Verbs) > 0 /\ ~HasAll(resource.APIResource.Verbs, opts.Verbs)
    THEN TRUE
    ELSE IF Len(opts.Categories) > 0
            /\ ~HasAll(resource.APIResource.Categories, opts.Categories)
    THEN TRUE
    ELSE IF opts.preferredChanged /\ opts.Preferred # resource.Preferred
    THEN TRUE
    ELSE FALSE

\* excludeGroupResource that compares the preferred flag whether or not the
\* criterion was set.
excludeGroupResource_PreferredAlways(resource, opts) ==
    IF Contains(resource.APIResource.Name, Slash)
    THEN TRUE
    ELSE IF opts.nsChanged /\ opts.Namespaced # resource.APIResource.Namespaced
    THEN TRUE
    ELSE IF Len(opts.Verbs) > 0 /\ ~HasAll(resource.APIResource.Verbs, opts.Verbs)
    THEN TRUE
    ELSE IF Len(opts.Categories) > 0
            /\ ~HasAll(resource.APIResource.Categories, opts.Categories)
    THEN TRUE
    ELSE IF opts.Preferred # resource.Preferred
    THEN TRUE
    ELSE FALSE

\* excludeGroupResource that takes for the preferred criterion whether the
\* record's group version is the preferred version of its group.
excludeGroupResource_PreferredGroupVersion(resource, opts) ==
    IF Contains(resource.APIResource.Name, Slash)
    THEN TRUE
    ELSE IF opts.nsChanged /\ opts.Namespaced # resource.APIResource.Namespaced
    THEN TRUE
    ELSE IF Len(opts.Verbs) > 0 /\ ~HasAll(resource.APIResource.Verbs, opts.Verbs)
    THEN TRUE
    ELSE IF Len(opts.Categories) > 0
            /\ ~HasAll(resource.APIResource.Categories, opts.Categories)
    THEN TRUE
    ELSE IF opts.preferredChanged
            /\ opts.Preferred # (resource.APIGroup.PreferredVersion.GroupVersion
                                     = resource.APIGroupVersion)
    THEN TRUE
    ELSE FALSE

\* excludeGroupResource that looks at the categories only when no verbs
\* are asked for.
excludeGroupResource_VerbsMaskCategories(resource, opts) ==
    IF Contains(resource.APIResource.Name, Slash)
    THEN TRUE
    ELSE IF opts.nsChanged /\ opts.Namespaced # resource.APIResource.Namespaced
    THEN TRUE
    ELSE IF Len(opts.Verbs) > 0
    THEN ~HasAll(resource.APIResource.Verbs, opts.Verbs)
    ELSE IF Len(opts.Categories) > 0
            /\ ~HasAll(resource.APIResource.Categories, opts.Categories)
    THEN TRUE
    ELSE IF opts.preferredChanged /\ opts.Preferred # resource.Preferred
    THEN TRUE
    ELSE FALSE

\* excludeGroupResource: whether a record is left out of the result.
excludeGroupResource(resource, opts) ==
    IF Contains(resource.APIResource.Name, Slash)
    THEN TRUE
    ELSE IF opts.nsChanged /\ opts.Namespaced # resource.APIResource.Namespaced
    THEN TRUE
    ELSE IF Len(opts.Verbs) > 0 /\ ~HasAll(resource.APIResource.Verbs, opts.Verbs)
    THEN TRUE
    ELSE IF Len(opts.Categories) > 0
            /\ ~HasAll(resource.APIResource.Categories, opts.Categories)
    THEN TRUE
    ELSE IF opts.preferredChanged /\ opts.Preferred # resource.Preferred
    THEN TRUE
    ELSE FALSE

---------------------------------------------------------------------------
(* The preferred-version index *)

\* map[string]string: a function whose domain is the set of keys present.
EmptyMap == [k \in {} |-> <<>>]

\* A map assignment that keeps the value of a key already present.
MapSet_KeepFirst(m, k, v) ==
    IF k \in DOMAIN m THEN m ELSE [x \in DOMAIN m \cup {k} |-> IF x = k THEN v ELSE m[x]]

\* m[k] = v
MapSet(m, k, v) == [x \in (DOMAIN m) \cup {k} |-> IF x = k THEN v ELSE m[x]]

\* The inner loop of getPreferredResourceVersions over one resource list
\* whose group-version parsed to groupVersion.
RECURSIVE indexResources(_, _, _)
indexResources(preferredVersions, groupVersion, apiResources) ==
    IF apiResources = <<>>
    THEN preferredVersions
    ELSE LET resource == [Head(apiResources) EXCEPT !.Group = groupVersion.Group]
             key == unversionedResourceName(resource)
         IN  indexResources(
                 IF ~key.sub.isNil
                 THEN preferredVersions
                 ELSE MapSet(preferredVersions, key.name, groupVersion.Version),
                 groupVersion, Tail(apiResources))

\* The outer loop passing over a group-version string that does not parse.
RECURSIVE indexSummary_SkipUnparsable(_, _)
indexSummary_SkipUnparsable(preferredVersions, lists) ==
    IF lists = <<>>
    THEN [err |-> "nil", val |-> preferredVersions]
    ELSE LET groupVersion == ParseGroupVersion(Head(lists).GroupVersion) IN
         IF groupVersion.err
         THEN indexSummary_SkipUnparsable(preferredVersions, Tail(lists))
         ELSE indexSummary_SkipUnparsable(
                  indexResources(preferredVersions, groupVersion,
                                 Head(lists).APIResources),
                  Tail(lists))

\* The outer loop of getPreferredResourceVersions over the summary that
\* ServerPreferredResources answered.
RECURSIVE indexSummary(_, _)
indexSummary(preferredVersions, lists) ==
    IF lists = <<>>
    THEN [err |-> "nil", val |-> preferredVersions]
    ELSE LET groupVersion == ParseGroupVersion(Head(lists).GroupVersion) IN
         IF groupVersion.err
         THEN [err |-> "parse", val |-> EmptyMap]
         ELSE indexSummary(
                  indexResources(preferredVersions, groupVersion,
                                 Head(lists).APIResources),
                  Tail(lists))

\* answer is what ServerPreferredResources returned: an error or a summary.
getPreferredResourceVersions(answer) ==
    IF answer.err
    THEN [err |-> "preferred", val |-> EmptyMap]
    ELSE indexSummary(EmptyMap, answer.val)

---------------------------------------------------------------------------
(* The enumeration *)

\* preferredFlag without the comparison of versions: any indexed resource
\* counts as preferred.
preferredFlag_AnyVersion(index, resourceName, version) ==
    resourceName \in DOMAIN index

\* The preferred flag true for a version that the index holds for any
\* resource at all.
preferredFlag_VersionOfAnyResource(index, resourceName, version) ==
    \E k \in DOMAIN index : index[k] = version.Version

\* preferredVersion, ok := preferredResources[resourceName];
\* preferred := ok && preferredVersion == version.Version
preferredFlag(index, resourceName, version) ==
    resourceName \in DOMAIN index /\ index[resourceName] = version.Version

\* The loop of processGroupResources over the resources of one group version.
RECURSIVE processAPIResources(_, _, _, _, _)
processAPIResources(opts, group, version, index, apiResources) ==
    IF apiResources = <<>>
    THEN <<>>
    ELSE LET apiResource == [Head(apiResources) EXCEPT !.Group = group.Name]
             key == unversionedResourceName(apiResource)
             resource == groupResource(group, version.GroupVersion, apiResource,
                                       preferredFlag(index, key.name, version))
             rest == processAPIResources(opts, group, version, index,
                                         Tail(apiResources))
         IN  IF ~key.sub.isNil
             THEN rest
             ELSE IF ~excludeGroupResource(resource, opts)
             THEN <<resource>> \o rest
             ELSE rest

---------------------------------------------------------------------------
(* What the discovery client can answer *)

\* Sequences without repetition over a set, of a length from lo to hi.
InjectiveSeqs(S, lo, hi) ==
    {q \in UNION {[1..k -> S] : k \in lo..hi} :
        \A i, j \in 1..Len(q) : i # j => q[i] # q[j]}

CoreGroupName == <<>>
AppsGroupName == <<"a">>
GroupNames == {CoreGroupName, AppsGroupName}
VersionNames == {<<"1">>, <<"2">>}

\* The group-version string of a version of a group, as the server forms
\* it: "v1" for the core group, "apps/v1" for a named one.
GroupVersionString(name, v) ==
    IF name = <<>> THEN v ELSE name \o <<Slash>> \o v

\* The version lists a group can have: the core group has one version, a
\* named group one or two, in either order.
VersionLists(name) ==
    IF name = CoreGroupName
    THEN {<<GroupVersionForDiscovery(GroupVersionString(name, <<"1">>), <<"1">>)>>}
    ELSE {[i \in 1..Len(q) |->
              GroupVersionForDiscovery(GroupVersionString(name, q[i]), q[i])] :
          q \in InjectiveSeqs(VersionNames, 1, Cardinality(VersionNames))}

\* The groups a server can list under a name; the preferred version is the
\* first one listed.
GroupsNamed(name) == {APIGroup(name, vl, vl[1]) : vl \in VersionLists(name)}

\* ServerGroups answers: any list of groups with distinct names.
GroupLists ==
    {q \in UNION {[1..k -> UNION {GroupsNamed(n) : n \in GroupNames}] :
                  k \in 0..Cardinality(GroupNames)} :
        \A i, j \in 1..Len(q) : i # j => q[i].Name # q[j].Name}

\* The resources a group version can list: a namespaced resource with a
\* category, a cluster-scoped one with fewer verbs whose kind sorts before
\* the first one's while its name sorts after, and a subresource.
Pods == APIResource(<<"p">>, TRUE, <<"P">>, <<"get", "list">>, <<"all">>)
Nodes == APIResource(<<"q">>, FALSE, <<"N">>, <<"get">>, <<>>)
PodsStatus == APIResource(<<"p", Slash, "s">>, TRUE, <<>>, <<"get">>, <<>>)
ResourceCatalog == {Pods, Nodes, PodsStatus}

\* ServerResourcesForGroupVersion answers: any list without repetition.
ResourceLists == InjectiveSeqs(ResourceCatalog, 0, MaxResources)

\* ServerPreferredResources answers: per entry a group-version string (one
\* of them does not parse) and the resources under it.
SummaryGroupVersions ==
    {<<"1">>, <<"a", Slash, "1">>, <<"a", Slash, "2">>,
     <<"a", Slash, "1", Slash, "2">>}
SummaryEntries ==
    {[GroupVersion |-> gv, APIResources |-> <<Pods, PodsStatus>>] :
        gv \in SummaryGroupVersions}
Summaries == UNION {[1..k -> SummaryEntries] : k \in 0..MaxSummary}

\* An answer of the discovery client: an error, or a value.
Failed == [err |-> TRUE, val |-> <<>>]
Answered(v) == [err |-> FALSE, val |-> v]

---------------------------------------------------------------------------
(* getGroupResources, step by step *)

NoError == "nil"
errServerGroups == "couldn't get server groups"
errPreferred == "couldn't get preferred resource versions"
errResources == "couldn't get server resources for group version"

\* A call on the discovery client.
Call(fn, gv) == [fn |-> fn, gv |-> gv]

\* The invalidation done whatever options.Cached says.
Invalidate_DespiteCached ==
    /\ pc = "start"
    /\ calls' = Append(calls, Call("Invalidate", <<>>))
    /\ pc' = "groups"
    /\ UNCHANGED <<options, groupList, preferredResources, gi, vi,
                   groupResources, resources, served, result, runErr,
                   out, flushes, arg, ret>>

\* if !options.Cached { options.discoveryClient.Invalidate() }
Invalidate ==
    /\ pc = "start"
    /\ calls' = IF ~options.Cached
                THEN Append(calls, Call("Invalidate", <<>>))
                ELSE calls
    /\ pc' = "groups"
    /\ UNCHANGED <<options, groupList, preferredResources, gi, vi,
                   groupResources, resources, served, result, runErr,
                   out, flushes, arg, ret>>

\* ServerGroups going on to the preferred resources after noting the error.
ServerGroups_ContinuesOnError ==
    /\ pc = "groups"
    /\ calls' = Append(calls, Call("ServerGroups", <<>>))
    /\ \E answer \in {Failed} \cup {Answered(g) : g \in GroupLists} :
          IF answer.err
          THEN /\ result' = [resources |-> <<>>, err |-> errServerGroups]
               /\ pc' = "preferred"
               /\ UNCHANGED groupList
          ELSE /\ groupList' = answer.val
               /\ pc' = "preferred"
               /\ UNCHANGED result
    /\ UNCHANGED <<options, preferredResources, gi, vi, groupResources,
                   resources, served, runErr, out, flushes, arg, ret>>

\* groupList, err := options.discoveryClient.ServerGroups()
ServerGroups ==
    /\ pc = "groups"
    /\ calls' = Append(calls, Call("ServerGroups", <<>>))
    /\ \E answer \in {Failed} \cup {Answered(g) : g \in GroupLists} :
          IF answer.err
          THEN /\ result' = [resources |-> <<>>, err |-> errServerGroups]
               /\ pc' = "returned"
               /\ UNCHANGED groupList
          ELSE /\ groupList' = answer.val
               /\ pc' = "preferred"
               /\ UNCHANGED result
    /\ UNCHANGED <<options, preferredResources, gi, vi, groupResources,
                   resources, served, runErr, out, flushes, arg, ret>>

\* preferredResources, err := getPreferredResourceVersions(options), then
\* resources := make([]groupResource, 0) and the loop over the groups starts.
ServerPreferredResourcesAnswers(answer) ==
    /\ pc = "preferred"
    /\ calls' = Append(calls, Call("ServerPreferredResources", <<>>))
    /\ LET built == getPreferredResourceVersions(answer) IN
       IF built.err # NoError
       THEN /\ result' = [resources |-> <<>>, err |-> errPreferred]
            /\ pc' = "returned"
            /\ UNCHANGED <<preferredResources, gi, resources>>
       ELSE /\ preferredResources' = built.val
            /\ resources' = <<>>
            /\ gi' = 1
            /\ pc' = "loop"
            /\ UNCHANGED result
    /\ UNCHANGED <<options, groupList, vi, groupResources, served, runErr,
                   out, flushes, arg, ret>>

\* The step with any answer of the discovery client.
ServerPreferredResources ==
    \E answer \in {Failed} \cup {Answered(l) : l \in Summaries} :
        ServerPreferredResourcesAnswers(answer)

\* if excludeGroup(group, options) { continue }
SkipGroup ==
    /\ pc = "loop"
    /\ gi <= Len(groupList)
    /\ excludeGroup(groupList[gi], options)
    /\ gi' = gi + 1
    /\ UNCHANGED <<options, pc, calls, groupList, preferredResources, vi,
                   groupResources, resources, served, result, runErr,
                   out, flushes, arg, ret>>

\* processGroupResources entered for a group without asking excludeGroup.
EnterGroup_Unfiltered ==
    /\ pc = "loop"
    /\ gi <= Len(groupList)
    /\ groupResources' = <<>>
    /\ vi' = 1
    /\ pc' = "versions"
    /\ UNCHANGED <<options, calls, groupList, preferredResources, gi,
                   resources, served, result, runErr, out, flushes, arg, ret>>

\* processGroupResources is entered: resources := make([]groupResource, 0)
EnterGroup ==
    /\ pc = "loop"
    /\ gi <= Len(groupList)
    /\ ~excludeGroup(groupList[gi], options)
    /\ groupResources' = <<>>
    /\ vi' = 1
    /\ pc' = "versions"
    /\ UNCHANGED <<options, calls, groupList, preferredResources, gi,
                   resources, served, result, runErr, out, flushes, arg, ret>>

\* FetchVersion returning what was accumulated so far together with the error.
FetchVersion_Partial ==
    /\ pc = "versions"
    /\ vi <= Len(groupList[gi].Versions)
    /\ LET group == groupList[gi]
           version == group.Versions[vi]
       IN  /\ calls' = Append(calls, Call("ServerResourcesForGroupVersion",
                                          version.GroupVersion))
           /\ \E answer \in {Failed} \cup {Answered(l) : l \in ResourceLists} :
                 IF answer.err
                 THEN /\ result' = [resources |-> resources \o groupResources,
                                    err |-> errResources]
                      /\ pc' = "returned"
                      /\ UNCHANGED <<vi, groupResources, served>>
                 ELSE /\ groupResources' = groupResources \o
                             processAPIResources(options, group, version,
                                                 preferredResources, answer.val)
                      /\ served' = Append(served,
                             [GroupVersion |-> version.GroupVersion,
                              APIResources |-> answer.val])
                      /\ vi' = vi + 1
                      /\ UNCHANGED <<pc, result>>
    /\ UNCHANGED <<options, groupList, preferredResources, gi, resources,
                   runErr, out, flushes, arg, ret>>

\* One iteration of the loop over group.Versions: the fetch of the
\* version's resource list and the loop over its resources.
FetchVersion ==
    /\ pc = "versions"
    /\ vi <= Len(groupList[gi].Versions)
    /\ LET group == groupList[gi]
           version == group.Versions[vi]
       IN  /\ calls' = Append(calls, Call("ServerResourcesForGroupVersion",
                                          version.GroupVersion))
           /\ \E answer \in {Failed} \cup {Answered(l) : l \in ResourceLists} :
                 IF answer.err
                 THEN /\ result' = [resources |-> <<>>, err |-> errResources]
                      /\ pc' = "returned"
                      /\ UNCHANGED <<vi, groupResources, served>>
                 ELSE /\ groupResources' = groupResources \o
                             processAPIResources(options, group, version,
                                                 preferredResources, answer.val)
                      /\ served' = Append(served,
                             [GroupVersion |-> version.GroupVersion,
                              APIResources |-> answer.val])
                      /\ vi' = vi + 1
                      /\ UNCHANGED <<pc, result>>
    /\ UNCHANGED <<options, groupList, preferredResources, gi, resources,
                   runErr, out, flushes, arg, ret>>

\* LeaveGroup with resources = groupResources: the records of the groups
\* visited before are lost.
LeaveGroup_Overwrite ==
    /\ pc = "versions"
    /\ vi > Len(groupList[gi].Versions)
    /\ resources' = groupResources
    /\ gi' = gi + 1
    /\ pc' = "loop"
    /\ UNCHANGED <<options, calls, groupList, preferredResources, vi,
                   groupResources, served, result, runErr, out, flushes,
                   arg, ret>>

\* processGroupResources returns: resources = append(resources, groupResources...)
LeaveGroup ==
    /\ pc = "versions"
    /\ vi > Len(groupList[gi].Versions)
    /\ resources' = resources \o groupResources
    /\ gi' = gi + 1
    /\ pc' = "loop"
    /\ UNCHANGED <<options, calls, groupList, preferredResources, vi,
                   groupResources, served, result, runErr, out, flushes,
                   arg, ret>>

\* return resources, nil
ReturnResources ==
    /\ pc = "loop"
    /\ gi > Len(groupList)
    /\ result' = [resources |-> resources, err |-> NoError]
    /\ pc' = "returned"
    /\ UNCHANGED <<options, calls, groupList, preferredResources, gi, vi,
                   groupResources, resources, served, runErr, out, flushes,
                   arg, ret>>

getGroupResources ==
    \/ Invalidate
    \/ ServerGroups
    \/ ServerPreferredResources
    \/ SkipGroup
    \/ EnterGroup
    \/ FetchVersion
    \/ LeaveGroup
    \/ ReturnResources

---------------------------------------------------------------------------
(* The enumeration under every filter *)

\* The options a test builder or the flags can set for the enumeration:
\* at most one filter criterion beside the group filter.
WithGroup(o) ==
    {o} \cup {[o EXCEPT !.groupChanged = TRUE, !.APIGroup = g] : g \in GroupNames}

OneCriterion ==
    LET d == newAPIResourceVersionsOptions IN
    {d}
    \cup {[d EXCEPT !.nsChanged = TRUE, !.Namespaced = b] : b \in BOOLEAN}
    \cup {[d EXCEPT !.preferredChanged = TRUE, !.Preferred = b] : b \in BOOLEAN}
    \cup {[d EXCEPT !.Verbs = <<"list">>], [d EXCEPT !.Categories = <<"all">>],
          [d EXCEPT !.IncludeSubresources = TRUE], [d EXCEPT !.Cached = TRUE]}

EnumOptions == UNION {WithGroup(o) : o \in OneCriterion}

NoCall == [isCall |-> FALSE]

Init ==
    /\ options \in EnumOptions
    /\ pc = "start"
    /\ calls = <<>>
    /\ groupList = <<>>
    /\ preferredResources = EmptyMap
    /\ gi = 0
    /\ vi = 0
    /\ groupResources = <<>>
    /\ resources = <<>>
    /\ served = <<>>
    /\ result = [resources |-> <<>>, err |-> NoError]
    /\ runErr = NoError
    /\ out = <<>>
    /\ flushes = 0
    /\ arg = NoCall
    /\ ret = NoCall

Next == getGroupResources

Spec == Init /\ [][Next]_vars

---------------------------------------------------------------------------
(* Properties of the enumeration *)

\* The part of a resource name before its first "/".
BaseNameOf(name) ==
    IF \E i \in 1..Len(name) : name[i] = Slash
    THEN SubSeq(name, 1, (CHOOSE i \in 1..Len(name) :
                              name[i] = Slash /\ \A j \in 1..(i - 1) : name[j] # Slash) - 1)
    ELSE name

IsSubresourceName(name) == \E i \in 1..Len(name) : name[i] = Slash

\* The version part of a well-formed group-version string.
VersionOf(gv) ==
    IF \E i \in 1..Len(gv) : gv[i] = Slash
    THEN SubSeq(gv, (CHOOSE i \in 1..Len(gv) : gv[i] = Slash) + 1, Len(gv))
    ELSE gv

\* The key of a record in the preferred-version index.
IndexKeyOf(r) == BaseNameOf(r.APIResource.Name) \o <<Dot>> \o r.APIGroup.Name

PreferredAgreesWithIndex(r) ==
    r.Preferred <=> /\ IndexKeyOf(r) \in DOMAIN preferredResources
                    /\ preferredResources[IndexKeyOf(r)] = VersionOf(r.APIGroupVersion)

AllOf(q, P(_)) == \A i \in 1..Len(q) : P(q[i])

\* C1: every record the enumerator produces has preferred = TRUE exactly
\* when the preferred-version index has an entry for baseName.group and the
\* entry is the record's own version; with no entry the flag is FALSE.
C1_PreferredIffIndexEntry ==
    /\ AllOf(groupResources, PreferredAgreesWithIndex)
    /\ AllOf(resources, PreferredAgreesWithIndex)
    /\ AllOf(result.resources, PreferredAgreesWithIndex)

\* C1 witness: a returned sequence holding a preferred record, a record whose
\* index entry names another version, and a record without index entry.
C1_Witness ==
    /\ pc = "returned"
    /\ result.err = NoError
    /\ \E i, j, k \in 1..Len(result.resources) :
          LET a == result.resources[i]
              b == result.resources[j]
              c == result.resources[k]
          IN  /\ a.Preferred
              /\ ~b.Preferred /\ IndexKeyOf(b) \in DOMAIN preferredResources
              /\ ~c.Preferred /\ IndexKeyOf(c) \notin DOMAIN preferredResources

RECURSIVE ConcatAll(_)
ConcatAll(qs) == IF qs = <<>> THEN <<>> ELSE Head(qs) \o ConcatAll(Tail(qs))

\* Whether a group version was fetched, and the list it answered.
WasServed(gv) == \E i \in 1..Len(served) : served[i].GroupVersion = gv
ListedUnder(gv) ==
    IF WasServed(gv)
    THEN served[CHOOSE i \in 1..Len(served) : served[i].GroupVersion = gv].APIResources
    ELSE <<>>

\* The record of a resource listed under a version of a group.
RecordOf(g, v, a) ==
    LET key == BaseNameOf(a.Name) \o <<Dot>> \o g.Name IN
    [APIGroup |-> g, APIGroupVersion |-> v.GroupVersion,
     APIResource |-> [a EXCEPT !.Group = g.Name],
     Preferred |-> key \in DOMAIN preferredResources
                   /\ preferredResources[key] = v.Version]

\* The full enumeration: groups in listed order, within a group its versions
\* in listed order, within a version its resources in listed order.
FullEnumeration ==
    ConcatAll([i \in 1..Len(groupList) |->
        ConcatAll([j \in 1..Len(groupList[i].Versions) |->
            LET g == groupList[i]
                v == g.Versions[j]
                l == ListedUnder(v.GroupVersion)
            IN  [k \in 1..Len(l) |-> RecordOf(g, v, l[k])]])])

PassesFilters(r) ==
    ~excludeGroup(r.APIGroup, options) /\ ~excludeGroupResource(r, options)

\* The group versions of the groups that pass the group filter, in order.
VersionsToFetch ==
    ConcatAll([i \in 1..Len(groupList) |->
        IF excludeGroup(groupList[i], options)
        THEN <<>>
        ELSE [j \in 1..Len(groupList[i].Versions) |->
                 groupList[i].Versions[j].GroupVersion]])

\* C8: when every discovery call succeeds, the returned sequence is exactly
\* the records of the full enumeration that pass the group filter and the
\* resource filter, in the order of the enumeration; the resource list of
\* every version of a group that passes the group filter was fetched.
C8_ExactFilteredSubsequence ==
    (pc = "returned" /\ result.err = NoError) =>
        /\ [i \in 1..Len(served) |-> served[i].GroupVersion] = VersionsToFetch
        /\ result.resources = SelectSeq(FullEnumeration, PassesFilters)

\* C8 witness: two groups were enumerated, a record was kept from each, a
\* record was dropped by the resource filter, and two records of one
\* version were kept.
C8_Witness ==
    /\ pc = "returned"
    /\ result.err = NoError
    /\ Len(groupList) = 2
    /\ \E i, j \in 1..Len(result.resources) :
          result.resources[i].APIGroup.Name # result.resources[j].APIGroup.Name
    /\ \E i \in 1..(Len(result.resources) - 1) :
          /\ result.resources[i].APIGroupVersion = result.resources[i + 1].APIGroupVersion
          /\ result.resources[i].APIResource.Name # result.resources[i + 1].APIResource.Name
    /\ Len(result.resources) < Len(FullEnumeration)

\* C9: an error of getGroupResources comes with no records at all.
C9_ErrorMeansNoRecords ==
    result.err # NoError => result.resources = <<>>

\* C9 witness: the fetch of a group version failed after records had been
\* accumulated from an earlier group and from an earlier version of this group.
C9_Witness ==
    /\ pc = "returned"
    /\ result.err = errResources
    /\ resources # <<>>
    /\ groupResources # <<>>
    /\ result.resources = <<>>

\* The criteria of the resource filter other than the subresource one.
PassesOtherCriteria(r) ==
    /\ options.nsChanged => options.Namespaced = r.APIResource.Namespaced
    /\ \A i \in 1..Len(options.Verbs) :
          \E j \in 1..Len(r.APIResource.Verbs) :
              r.APIResource.Verbs[j] = options.Verbs[i]
    /\ \A i \in 1..Len(options.Categories) :
          \E j \in 1..Len(r.APIResource.Categories) :
              r.APIResource.Categories[j] = options.Categories[i]
    /\ options.preferredChanged => options.Preferred = r.Preferred

IsReturned(r) == \E i \in 1..Len(result.resources) : result.resources[i] = r

\* C3: when subresource inclusion is requested, the subresource records
\* that pass the other filters are returned alongside their base resources;
\* when it is not requested, no subresource record is returned.
C3_SubresourcesReturnedOnRequest ==
    (pc = "returned" /\ result.err = NoError) =>
        \A i \in 1..Len(FullEnumeration) :
            LET r == FullEnumeration[i] IN
            IsSubresourceName(r.APIResource.Name) =>
                (IsReturned(r) <=> /\ options.IncludeSubresources
                                   /\ ~excludeGroup(r.APIGroup, options)
                                   /\ PassesOtherCriteria(r))

---------------------------------------------------------------------------
(* The filter predicates applied on their own *)

\* The run does not take place.
NoRun ==
    /\ options = newAPIResourceVersionsOptions
    /\ pc = "idle"
    /\ calls = <<>>
    /\ groupList = <<>>
    /\ preferredResources = EmptyMap
    /\ gi = 0
    /\ vi = 0
    /\ groupResources = <<>>
    /\ resources = <<>>
    /\ served = <<>>
    /\ result = [resources |-> <<>>, err |-> NoError]
    /\ runErr = NoError
    /\ out = <<>>
    /\ flushes = 0

Result(v) == [isCall |-> TRUE, val |-> v]

VerbLists == StringsUpTo({"get", "list"}, MaxFilterLen)
CategoryLists == StringsUpTo({"all"}, MaxFilterLen)
FilterGroupNames == GroupNames \cup {<<"b">>}

\* The records excludeGroupResource is applied to.
FilterResources ==
    {groupResource(APIGroup(AppsGroupName, <<>>, <<>>), <<"a", Slash, "1">>,
                   APIResource(name, namespaced, <<>>, verbs, categories),
                   preferred) :
        name \in {<<"p">>, <<"p", Slash, "s">>}, namespaced \in BOOLEAN,
        verbs \in VerbLists, categories \in CategoryLists, preferred \in BOOLEAN}

\* The options excludeGroupResource is applied to.
FilterOptions ==
    {[newAPIResourceVersionsOptions EXCEPT
         !.nsChanged = nc, !.Namespaced = n, !.Verbs = verbs,
         !.Categories = categories, !.preferredChanged = pf[1], !.Preferred = pf[2]] :
        nc \in BOOLEAN, n \in BOOLEAN, verbs \in VerbLists,
        categories \in CategoryLists, pf \in BOOLEAN \X BOOLEAN}

\* The options and groups excludeGroup is applied to.
GroupFilterOptions ==
    {[newAPIResourceVersionsOptions EXCEPT !.groupChanged = gc, !.APIGroup = g] :
        gc \in BOOLEAN, g \in FilterGroupNames}

FilterCalls ==
    {[fn |-> "excludeGroupResource", resource |-> r, group |-> r.APIGroup,
      options |-> o] : r \in FilterResources, o \in FilterOptions}
    \cup
    {[fn |-> "excludeGroup", resource |-> <<>>, group |-> APIGroup(g, <<>>, <<>>),
      options |-> o] : g \in GroupNames, o \in GroupFilterOptions}

FilterInit ==
    /\ NoRun
    /\ arg \in FilterCalls
    /\ ret = NoCall

CallExcludeGroupResource ==
    /\ arg.fn = "excludeGroupResource"
    /\ ret = NoCall
    /\ ret' = Result(excludeGroupResource(arg.resource, arg.options))
    /\ UNCHANGED <<runVars, arg>>

CallExcludeGroup ==
    /\ arg.fn = "excludeGroup"
    /\ ret = NoCall
    /\ ret' = Result(excludeGroup(arg.group, arg.options))
    /\ UNCHANGED <<runVars, arg>>

FilterNext == CallExcludeGroupResource \/ CallExcludeGroup

SpecFilter == FilterInit /\ [][FilterNext]_vars

ResourceFiltered == ret.isCall /\ arg.fn = "excludeGroupResource"
GroupFiltered == ret.isCall /\ arg.fn = "excludeGroup"

\* C2: with the default options, excludeGroupResource is FALSE for a name
\* without "/" and TRUE for a name with "/", whatever the record's
\* namespaced flag, verbs, categories and preferred flag.
C2_DefaultsHideOnlySubresources ==
    (ResourceFiltered /\ arg.options = newAPIResourceVersionsOptions) =>
        ret.val = IsSubresourceName(arg.resource.APIResource.Name)

\* C2 witness: a cluster-scoped, non-preferred base resource without verbs
\* or categories is kept under the default options.
C2_Witness ==
    /\ ResourceFiltered
    /\ arg.options = newAPIResourceVersionsOptions
    /\ ~IsSubresourceName(arg.resource.APIResource.Name)
    /\ ~arg.resource.APIResource.Namespaced
    /\ ~arg.resource.Preferred
    /\ arg.resource.APIResource.Verbs = <<>>
    /\ ret.val = FALSE

\* What each criterion of the resource filter decides, in the words of the
\* criteria.
NsExcludes(r, o) == o.nsChanged /\ o.Namespaced # r.APIResource.Namespaced
PreferredExcludes(r, o) == o.preferredChanged /\ o.Preferred # r.Preferred
Missing(want, have) ==
    \E i \in 1..Len(want) : \A j \in 1..Len(have) : have[j] # want[i]
VerbsExclude(r, o) == o.Verbs # <<>> /\ Missing(o.Verbs, r.APIResource.Verbs)
CategoriesExclude(r, o) ==
    o.Categories # <<>> /\ Missing(o.Categories, r.APIResource.Categories)

Reverse(q) == [i \in 1..Len(q) |-> q[Len(q) + 1 - i]]

\* C6: the verbs (categories) criterion excludes a record exactly when the
\* filter list is non-empty and one of its elements is missing from the
\* record's list; order and duplicates in either list change nothing.
C6_VerbsAndCategoriesAreSupersetTests ==
    ResourceFiltered =>
        LET r == arg.resource
            o == arg.options
            others == IsSubresourceName(r.APIResource.Name)
                      \/ NsExcludes(r, o) \/ PreferredExcludes(r, o)
        IN  /\ ret.val = (others \/ VerbsExclude(r, o) \/ CategoriesExclude(r, o))
            /\ ret.val = excludeGroupResource(r,
                   [o EXCEPT !.Verbs = Reverse(o.Verbs) \o o.Verbs,
                             !.Categories = o.Categories \o o.Categories])
            /\ ret.val = excludeGroupResource(
                   [r EXCEPT !.APIResource.Verbs = Reverse(@) \o @,
                             !.APIResource.Categories = @ \o @], o)

\* C6 witness: the record has one of the two verbs asked for, twice, and is
\* excluded by the verbs criterion alone.
C6_Witness ==
    /\ ResourceFiltered
    /\ arg.options.Verbs = <<"get", "list">>
    /\ arg.resource.APIResource.Verbs = <<"get", "get">>
    /\ ~IsSubresourceName(arg.resource.APIResource.Name)
    /\ ~NsExcludes(arg.resource, arg.options)
    /\ ~PreferredExcludes(arg.resource, arg.options)
    /\ ~CategoriesExclude(arg.resource, arg.options)
    /\ ret.val = TRUE

\* C7: excludeGroup is TRUE exactly when a group filter was given and
\* differs from the group's name: a given empty filter keeps the core group
\* only, an unset filter excludes no group.
C7_GroupExcludedIffGivenAndDifferent ==
    GroupFiltered =>
        ret.val = (arg.options.groupChanged /\ arg.options.APIGroup # arg.group.Name)

\* C7 witness: a given empty filter excludes a named group.
C7_Witness ==
    /\ GroupFiltered
    /\ arg.options.groupChanged
    /\ arg.options.APIGroup = <<>>
    /\ arg.group.Name = AppsGroupName
    /\ ret.val = TRUE

---------------------------------------------------------------------------
(* The naming helpers applied on their own *)

ResourceNameStrings == StringsUpTo({"p", "s", Slash}, MaxNameLen)
GroupVersionStrings == StringsUpTo({"a", "1", Slash}, MaxNameLen)

NamedRecord(name, g, gv) ==
    groupResource(APIGroup(g, <<>>, <<>>), gv,
                  [APIResource(name, TRUE, <<>>, <<>>, <<>>) EXCEPT !.Group = g],
                  FALSE)

NameCalls ==
    {[fn |-> "fullname", gr |-> NamedRecord(name, g, gv)] :
        name \in ResourceNameStrings, g \in GroupNames, gv \in GroupVersionStrings}
    \cup
    {[fn |-> f, gr |-> NamedRecord(name, g, <<>>)] :
        f \in {"splitResourceName", "unversionedResourceName"},
        name \in ResourceNameStrings, g \in GroupNames}

NameInit ==
    /\ NoRun
    /\ arg \in NameCalls
    /\ ret = NoCall

CallFullname ==
    /\ arg.fn = "fullname"
    /\ ret = NoCall
    /\ ret' = Result(fullname(arg.gr))
    /\ UNCHANGED <<runVars, arg>>

CallSplitResourceName ==
    /\ arg.fn = "splitResourceName"
    /\ ret = NoCall
    /\ ret' = Result(splitResourceName(arg.gr.APIResource.Name))
    /\ UNCHANGED <<runVars, arg>>

CallUnversionedResourceName ==
    /\ arg.fn = "unversionedResourceName"
    /\ ret = NoCall
    /\ ret' = Result(unversionedResourceName(arg.gr.APIResource))
    /\ UNCHANGED <<runVars, arg>>

NameNext == CallFullname \/ CallSplitResourceName \/ CallUnversionedResourceName

SpecName == NameInit /\ [][NameNext]_vars

\* The part of a resource name after its first "/".
SubresourceNameOf(name) ==
    SubSeq(name, (CHOOSE i \in 1..Len(name) :
                      name[i] = Slash /\ \A j \in 1..(i - 1) : name[j] # Slash) + 1,
           Len(name))

\* C4: the name-format text of a record is base.version.group for a base
\* resource and base.version.group, a space and the subresource name for a
\* subresource, base being the name up to its first "/".
C4_FullnameFormat ==
    (ret.isCall /\ arg.fn = "fullname" /\ ~ret.val.panic) =>
        LET name == arg.gr.APIResource.Name
            versioned == BaseNameOf(name) \o <<Dot>> \o VersionOf(arg.gr.APIGroupVersion)
                         \o <<Dot>> \o arg.gr.APIGroup.Name
        IN  ret.val.val = IF IsSubresourceName(name)
                          THEN versioned \o <<Space>> \o SubresourceNameOf(name)
                          ELSE versioned

\* C4 for base resources only, where the text is name.version.group.
C4_FullnameFormatOfBaseResources ==
    (ret.isCall /\ arg.fn = "fullname" /\ ~ret.val.panic
       /\ ~IsSubresourceName(arg.gr.APIResource.Name)) =>
        ret.val.val = arg.gr.APIResource.Name \o <<Dot>>
                      \o VersionOf(arg.gr.APIGroupVersion)
                      \o <<Dot>> \o arg.gr.APIGroup.Name

---------------------------------------------------------------------------
(* Sorting *)

\* The characters of the model in byte order, for the < of Go strings.
ByteOrder == <<" ", ".", "/", "1", "2", "N", "P", "a", "b", "p", "q", "s">>
Rank(c) == CHOOSE i \in 1..Len(ByteOrder) : ByteOrder[i] = c

\* a < b for Go strings.
RECURSIVE StringLess(_, _)
StringLess(a, b) ==
    IF b = <<>> THEN FALSE
    ELSE IF a = <<>> THEN TRUE
    ELSE IF Head(a) # Head(b) THEN Rank(Head(a)) < Rank(Head(b))
    ELSE StringLess(Tail(a), Tail(b))

\* sortableResource.Less with the default key comparing resource names only.
Less_NameOnly(left, right, sortBy) ==
    IF sortBy = kindSortBy
    THEN StringLess(left.APIResource.Kind, right.APIResource.Kind)
    ELSE StringLess(left.APIResource.Name, right.APIResource.Name)

\* sortableResource.Less on two records.
Less(left, right, sortBy) ==
    IF sortBy = nameSortBy
    THEN StringLess(left.APIResource.Name, right.APIResource.Name)
    ELSE IF sortBy = kindSortBy
    THEN StringLess(left.APIResource.Kind, right.APIResource.Kind)
    ELSE IF left.APIGroup.Name # right.APIGroup.Name
    THEN StringLess(left.APIGroup.Name, right.APIGroup.Name)
    ELSE StringLess(left.APIResource.Name, right.APIResource.Name)

\* sortableResource.Swap
Swap(q, i, j) == [q EXCEPT ![i] = q[j], ![j] = q[i]]

\* The insertion loop moving an element past its equals as well.
RECURSIVE SinkElement_Unstable(_, _, _)
SinkElement_Unstable(q, j, sortBy) ==
    IF j > 1 /\ ~Less(q[j - 1], q[j], sortBy)
    THEN SinkElement_Unstable(Swap(q, j, j - 1), j - 1, sortBy)
    ELSE q

\* sort.Stable on fewer than 20 elements is an insertion sort:
\* for j := i; j > a && data.Less(j, j-1); j-- { data.Swap(j, j-1) }
RECURSIVE SinkElement(_, _, _)
SinkElement(q, j, sortBy) ==
    IF j > 1 /\ Less(q[j], q[j - 1], sortBy)
    THEN SinkElement(Swap(q, j, j - 1), j - 1, sortBy)
    ELSE q

RECURSIVE InsertionSortFrom(_, _, _)
InsertionSortFrom(q, i, sortBy) ==
    IF i > Len(q)
    THEN q
    ELSE InsertionSortFrom(SinkElement(q, i, sortBy), i + 1, sortBy)

\* A sort that takes its input back to front.
sortStable_Backwards(q, sortBy) == InsertionSortFrom(Reverse(q), 2, sortBy)

\* sort.Stable(sortableResource{resources, options.SortBy})
sortStable(q, sortBy) == InsertionSortFrom(q, 2, sortBy)

---------------------------------------------------------------------------
(* Printing *)

\* strings.Join(list, ","): the elements with a comma between them.
RECURSIVE Join(_)
Join(list) ==
    IF list = <<>> THEN <<>>
    ELSE IF Len(list) = 1 THEN <<list[1]>>
    ELSE <<list[1], ",">> \o Join(Tail(list))

\* %v and %t of a bool.
FormatBool(b) == IF b THEN "true" ELSE "false"

\* groupResource.PreferredGroupVersion
PreferredGroupVersion(gr) ==
    gr.APIGroup.PreferredVersion.GroupVersion = gr.APIGroupVersion

\* printHeaders with the wide format adding VERBS and CATEGORIES only.
printHeaders_TwoWideColumns(output) ==
    <<"NAME", "SHORTNAMES", "APIVERSION", "NAMESPACED", "KIND", "PREFERRED">>
    \o (IF output = "wide" THEN <<"VERBS", "CATEGORIES">> ELSE <<>>)

\* printHeaders: the columns of the header row.
printHeaders(output) ==
    <<"NAME", "SHORTNAMES", "APIVERSION", "NAMESPACED", "KIND", "PREFERRED">>
    \o (IF output = "wide" THEN <<"GROUPPREFERRED", "VERBS", "CATEGORIES">> ELSE <<>>)

\* printGroupResourcesDefault: the columns of a row.
printGroupResourcesDefault(resource) ==
    <<resource.APIResource.Name, Join(resource.APIResource.ShortNames),
      resource.APIGroupVersion, FormatBool(resource.APIResource.Namespaced),
      resource.APIResource.Kind, FormatBool(resource.Preferred)>>

\* printGroupResourcesWide: the columns of a row.
printGroupResourcesWide(resource) ==
    <<resource.APIResource.Name, Join(resource.APIResource.ShortNames),
      resource.APIGroupVersion, FormatBool(resource.APIResource.Namespaced),
      resource.APIResource.Kind, FormatBool(resource.Preferred),
      FormatBool(PreferredGroupVersion(resource)),
      Join(resource.APIResource.Verbs), Join(resource.APIResource.Categories)>>

\* A line of the output: a header or a data row, with its columns; a row
\* of the name format has the one column fullname returns.
Line(kind, columns) == [kind |-> kind, columns |-> columns]

\* The switch of printGroupResources on options.Output, for one record.
printRow(resource, output) ==
    IF output = nameOutput
    THEN Line("row", <<fullname(resource)>>)
    ELSE IF output = wideOutput
    THEN Line("row", printGroupResourcesWide(resource))
    ELSE Line("row", printGroupResourcesDefault(resource))

---------------------------------------------------------------------------
(* runAPIResourceVersions *)

errNoResourcesFound == "no resources found"

\* runAPIResourceVersions with the empty result an error in every format.
checkResources_AnyFormat ==
    /\ pc = "returned"
    /\ IF result.err # NoError
       THEN runErr' = result.err /\ pc' = "done"
       ELSE IF Len(result.resources) = 0
       THEN runErr' = errNoResourcesFound /\ pc' = "done"
       ELSE pc' = "print" /\ UNCHANGED runErr
    /\ UNCHANGED <<options, calls, groupList, preferredResources, gi, vi,
                   groupResources, resources, served, result, out, flushes,
                   arg, ret>>

\* runAPIResourceVersions writing the header before it looks at the result.
checkResources_HeaderFirst ==
    /\ pc = "returned"
    /\ out' = out \o <<Line("header", printHeaders(options.Output))>>
    /\ IF result.err # NoError
       THEN runErr' = result.err /\ pc' = "done"
       ELSE IF Len(result.resources) = 0 /\ options.Output # nameOutput
       THEN runErr' = errNoResourcesFound /\ pc' = "done"
       ELSE pc' = "print" /\ UNCHANGED runErr
    /\ UNCHANGED <<options, calls, groupList, preferredResources, gi, vi,
                   groupResources, resources, served, result, flushes,
                   arg, ret>>

\* runAPIResourceVersions after getGroupResources returned: the error is
\* passed on, an empty result is an error unless the format is name,
\* otherwise printGroupResources is called.
checkResources ==
    /\ pc = "returned"
    /\ IF result.err # NoError
       THEN runErr' = result.err /\ pc' = "done"
       ELSE IF Len(result.resources) = 0 /\ options.Output # nameOutput
       THEN runErr' = errNoResourcesFound /\ pc' = "done"
       ELSE pc' = "print" /\ UNCHANGED runErr
    /\ UNCHANGED <<options, calls, groupList, preferredResources, gi, vi,
                   groupResources, resources, served, result, out, flushes,
                   arg, ret>>

\* printGroupResources writing the header whatever NoHeaders says.
printGroupResources_HeaderDespiteNoHeaders ==
    /\ pc = "print"
    /\ LET sorted == sortStable(result.resources, options.SortBy)
           header == IF options.Output # nameOutput
                     THEN <<Line("header", printHeaders(options.Output))>>
                     ELSE <<>>
       IN  /\ out' = out \o header
                     \o [i \in 1..Len(sorted) |-> printRow(sorted[i], options.Output)]
           /\ result' = [result EXCEPT !.resources = sorted]
    /\ flushes' = flushes + 1
    /\ runErr' = NoError
    /\ pc' = "done"
    /\ UNCHANGED <<options, calls, groupList, preferredResources, gi, vi,
                   groupResources, resources, served, arg, ret>>

errPrintHeaders == "error printing headers"
errPrintRow == "error printing resource"
errAggregate == "aggregate"

\* The sink the tab writer writes to: the writes that fail on it, numbered
\* 0 for the header and i for the i-th row, and whether its flush fails.
Sink(failing, flushFails) == [failing |-> failing, flushFails |-> flushFails]
HealthySink == Sink({}, FALSE)

\* The rows of a sorted sequence whose write fails, in order, each with
\* the error of its print function.
RowErrors(sorted, sink) ==
    LET failed == SelectSeq([i \in 1..Len(sorted) |-> i],
                            LAMBDA i : i \in sink.failing)
    IN  [k \in 1..Len(failed) |->
            [row |-> failed[k], resource |-> sorted[failed[k]], err |-> errPrintRow]]

\* The rows of a sorted sequence that are written, in order.
RowsWritten(sorted, sink, output) ==
    LET written == SelectSeq([i \in 1..Len(sorted) |-> i],
                             LAMBDA i : i \notin sink.failing)
    IN  [k \in 1..Len(written) |-> printRow(sorted[written[k]], output)]

\* printGroupResources with the flush at its end instead of deferred: a
\* failed header write returns without it.
printGroupResourcesOnto_FlushNotDeferred(sink) ==
    /\ pc = "print"
    /\ LET sorted == sortStable(result.resources, options.SortBy)
           headerWanted == ~options.NoHeaders /\ options.Output # nameOutput
           errs == RowErrors(sorted, sink)
       IN  IF headerWanted /\ 0 \in sink.failing
           THEN /\ runErr' = errPrintHeaders
                /\ ret' = Result(<<>>)
                /\ pc' = "done"
                /\ UNCHANGED <<out, result, flushes>>
           ELSE /\ out' = out
                       \o (IF headerWanted
                           THEN <<Line("header", printHeaders(options.Output))>>
                           ELSE <<>>)
                       \o RowsWritten(sorted, sink, options.Output)
                /\ result' = [result EXCEPT !.resources = sorted]
                /\ runErr' = IF errs = <<>> THEN NoError ELSE errAggregate
                /\ ret' = Result(errs)
                /\ flushes' = flushes + 1
                /\ pc' = IF sink.flushFails THEN "panic" ELSE "done"
    /\ UNCHANGED <<options, calls, groupList, preferredResources, gi, vi,
                   groupResources, resources, served, arg>>

\* printGroupResources stopping at the first row whose write fails.
printGroupResourcesOnto_StopsAtFirstFailure(sink) ==
    /\ pc = "print"
    /\ LET sorted == sortStable(result.resources, options.SortBy)
           headerWanted == ~options.NoHeaders /\ options.Output # nameOutput
           errs == RowErrors(sorted, sink)
           upTo == IF errs = <<>> THEN Len(sorted) ELSE errs[1].row - 1
       IN  IF headerWanted /\ 0 \in sink.failing
           THEN /\ runErr' = errPrintHeaders
                /\ ret' = Result(<<>>)
                /\ UNCHANGED <<out, result>>
           ELSE /\ out' = out
                       \o (IF headerWanted
                           THEN <<Line("header", printHeaders(options.Output))>>
                           ELSE <<>>)
                       \o [i \in 1..upTo |-> printRow(sorted[i], options.Output)]
                /\ result' = [result EXCEPT !.resources = sorted]
                /\ runErr' = IF errs = <<>> THEN NoError ELSE errAggregate
                /\ ret' = Result(IF errs = <<>> THEN <<>> ELSE <<errs[1]>>)
    /\ flushes' = flushes + 1
    /\ pc' = IF sink.flushFails THEN "panic" ELSE "done"
    /\ UNCHANGED <<options, calls, groupList, preferredResources, gi, vi,
                   groupResources, resources, served, arg>>

\* printGroupResources writing onto a sink: the header row unless
\* suppressed, whose failure is returned at once; the stable sort; a row
\* per record, the failures collected and returned as an aggregate; and the
\* deferred flush on every return, whose failure is a panic.  ret holds
\* the errors aggregated.
printGroupResourcesOnto(sink) ==
    /\ pc = "print"
    /\ LET sorted == sortStable(result.resources, options.SortBy)
           headerWanted == ~options.NoHeaders /\ options.Output # nameOutput
           errs == RowErrors(sorted, sink)
       IN  IF headerWanted /\ 0 \in sink.failing
           THEN /\ runErr' = errPrintHeaders
                /\ ret' = Result(<<>>)
                /\ UNCHANGED <<out, result>>
           ELSE /\ out' = out
                       \o (IF headerWanted
                           THEN <<Line("header", printHeaders(options.Output))>>
                           ELSE <<>>)
                       \o RowsWritten(sorted, sink, options.Output)
                /\ result' = [result EXCEPT !.resources = sorted]
                /\ runErr' = IF errs = <<>> THEN NoError ELSE errAggregate
                /\ ret' = Result(errs)
    /\ flushes' = flushes + 1
    /\ pc' = IF sink.flushFails THEN "panic" ELSE "done"
    /\ UNCHANGED <<options, calls, groupList, preferredResources, gi, vi,
                   groupResources, resources, served, arg>>

\* printGroupResources onto a sink on which every write and the flush
\* succeed.
printGroupResources == printGroupResourcesOnto(HealthySink)

runAPIResourceVersions ==
    \/ getGroupResources
    \/ checkResources
    \/ printGroupResources

\* The options of a run: every output format, sort key and header choice,
\* with every group filter.
RunOptions ==
    UNION {WithGroup([newAPIResourceVersionsOptions EXCEPT
                         !.Output = o, !.SortBy = k, !.NoHeaders = h]) :
           o \in {"", wideOutput, nameOutput},
           k \in {"", nameSortBy, kindSortBy}, h \in BOOLEAN}

RunInit ==
    /\ options \in RunOptions
    /\ pc = "start"
    /\ calls = <<>>
    /\ groupList = <<>>
    /\ preferredResources = EmptyMap
    /\ gi = 0
    /\ vi = 0
    /\ groupResources = <<>>
    /\ resources = <<>>
    /\ served = <<>>
    /\ result = [resources |-> <<>>, err |-> NoError]
    /\ runErr = NoError
    /\ out = <<>>
    /\ flushes = 0
    /\ arg = NoCall
    /\ ret = NoCall

SpecRun == RunInit /\ [][runAPIResourceVersions]_vars

\* C10: a successful enumeration of zero records ends in the error "no
\* resources found" when the format is default or wide, and in no error and
\* no row written when the format is name; with one record or more the run
\* never ends in "no resources found".
C10_NoResourcesFound ==
    (pc = "done" /\ result.err = NoError) =>
        /\ (Len(result.resources) = 0 /\ options.Output # nameOutput) =>
               runErr = errNoResourcesFound /\ out = <<>>
        /\ (Len(result.resources) = 0 /\ options.Output = nameOutput) =>
               runErr = NoError /\ out = <<>>
        /\ Len(result.resources) > 0 => runErr # errNoResourcesFound

\* C10 witness: groups were listed, a resource list was fetched, nothing
\* passed the filters, and the run in name format ended without error.
C10_Witness ==
    /\ pc = "done"
    /\ result.err = NoError
    /\ Len(result.resources) = 0
    /\ Len(FullEnumeration) > 0
    /\ options.Output = nameOutput
    /\ runErr = NoError
    /\ out = <<>>
    /\ flushes = 1

---------------------------------------------------------------------------
(* The sort step and the printed sequence *)

\* The sequence the enumerator hands to printGroupResources.
FilteredSequence == SelectSeq(FullEnumeration, PassesFilters)

\* printGroupResources ran to its end.
Printed == pc = "done" /\ flushes = 1

CountOf(q, x) == Cardinality({i \in 1..Len(q) : q[i] = x})
Elements(q) == {q[i] : i \in 1..Len(q)}
IsPermutation(p, q) ==
    /\ Len(p) = Len(q)
    /\ \A x \in Elements(p) \cup Elements(q) : CountOf(p, x) = CountOf(q, x)

\* a does not come after b under the selected key.
NotAfter(a, b, sortBy) ==
    IF sortBy = nameSortBy
    THEN ~StringLess(b.APIResource.Name, a.APIResource.Name)
    ELSE IF sortBy = kindSortBy
    THEN ~StringLess(b.APIResource.Kind, a.APIResource.Kind)
    ELSE \/ StringLess(a.APIGroup.Name, b.APIGroup.Name)
         \/ /\ a.APIGroup.Name = b.APIGroup.Name
            /\ ~StringLess(b.APIResource.Name, a.APIResource.Name)

\* a and b compare equal under the selected key.
SameKey(a, b, sortBy) == NotAfter(a, b, sortBy) /\ NotAfter(b, a, sortBy)

\* The data rows written, in order.
PrintedRows == SelectSeq(out, LAMBDA l : l.kind = "row")

\* C11: after printGroupResources the sorted sequence is a permutation of
\* the filtered sequence, every adjacent pair is non-decreasing by the
\* selected key (name; kind; group name then resource name by default), and
\* the rows are written in that order.
C11_SortedPermutation ==
    Printed =>
        LET sorted == result.resources
            filtered == FilteredSequence
        IN
        /\ IsPermutation(sorted, filtered)
        /\ \A i \in 1..(Len(sorted) - 1) :
               NotAfter(sorted[i], sorted[i + 1], options.SortBy)
        /\ PrintedRows = [i \in 1..Len(sorted) |-> printRow(sorted[i], options.Output)]

\* C11 witness: with no sort key, records of a named group were enumerated
\* before records of the core group and the same resource name occurs in
\* both groups, so the sort moved records across groups.
C11_Witness ==
    /\ Printed
    /\ options.SortBy = ""
    /\ Len(result.resources) >= 3
    /\ result.resources[1].APIGroup.Name = CoreGroupName
    /\ LET filtered == FilteredSequence IN
       /\ filtered # result.resources
       /\ filtered[1].APIGroup.Name = AppsGroupName
       /\ \E i, j \in 1..Len(filtered) :
              /\ filtered[i].APIGroup.Name # filtered[j].APIGroup.Name
              /\ filtered[i].APIResource.Name = filtered[j].APIResource.Name

\* The position of a record in a sequence that holds it once.
PositionIn(q, r) == CHOOSE i \in 1..Len(q) : q[i] = r

\* C12: the sort is stable: two records that compare equal under the
\* selected key are, after the sort, in the same relative order as in the
\* sequence the enumerator returned.
C12_SortIsStable ==
    Printed =>
        LET sorted == result.resources
            filtered == FilteredSequence
        IN
        \A i, j \in 1..Len(sorted) :
            (i < j /\ SameKey(sorted[i], sorted[j], options.SortBy)) =>
                PositionIn(filtered, sorted[i]) < PositionIn(filtered, sorted[j])

\* C12 witness: with no sort key, two versions of one resource of one group
\* were sorted past another record and kept their discovery order.
C12_Witness ==
    /\ Printed
    /\ options.SortBy = ""
    /\ LET filtered == FilteredSequence IN
       /\ filtered # result.resources
       /\ \E i, j \in 1..Len(result.resources) :
              /\ i < j
              /\ result.resources[i].APIGroup.Name = result.resources[j].APIGroup.Name
              /\ result.resources[i].APIResource.Name = result.resources[j].APIResource.Name
              /\ result.resources[i].APIGroupVersion # result.resources[j].APIGroupVersion
              /\ PositionIn(filtered, result.resources[i]) # i

\* C13: sorting by name a sequence that is already the result of the sort
\* by name returns the same sequence, record for record.
C13_SortByNameIsIdempotent ==
    (Printed /\ options.SortBy = nameSortBy) =>
        sortStable(result.resources, nameSortBy) = result.resources

\* C13 witness: the sort by name reordered the sequence and the result
\* holds records of equal name.
C13_Witness ==
    /\ Printed
    /\ options.SortBy = nameSortBy
    /\ FilteredSequence # result.resources
    /\ \E i, j \in 1..Len(result.resources) :
           /\ i # j
           /\ result.resources[i].APIResource.Name = result.resources[j].APIResource.Name
    /\ sortStable(result.resources, nameSortBy) = result.resources

---------------------------------------------------------------------------
(* Headers and columns *)

HeaderPositions == {i \in 1..Len(out) : out[i].kind = "header"}
HeaderWanted == ~options.NoHeaders /\ options.Output # nameOutput

\* C14: a header row is written only by printGroupResources, and then
\* exactly once and before every data row, when headers are not suppressed
\* and the format is not name; otherwise no header row is written.
C14_HeaderOnceAndFirst ==
    /\ ~Printed => out = <<>>
    /\ (Printed /\ HeaderWanted) =>
           /\ HeaderPositions = {1}
           /\ out[1].columns = printHeaders(options.Output)
    /\ (Printed /\ ~HeaderWanted) => HeaderPositions = {}

\* C14 witness: a header was written, followed by two data rows or more.
C14_Witness ==
    /\ Printed
    /\ HeaderWanted
    /\ Len(out) >= 3
    /\ out[1].kind = "header"
    /\ \A i \in 2..Len(out) : out[i].kind = "row"

\* C14 witness of the other case: headers were suppressed in a tabular
\* format and only data rows were written.
C14_WitnessSuppressed ==
    /\ Printed
    /\ options.NoHeaders
    /\ options.Output = wideOutput
    /\ Len(out) >= 2
    /\ HeaderPositions = {}

DefaultHeader ==
    <<"NAME", "SHORTNAMES", "APIVERSION", "NAMESPACED", "KIND", "PREFERRED">>

\* The six default columns of a record.
DefaultColumns(r) ==
    <<r.APIResource.Name, Join(r.APIResource.ShortNames), r.APIGroupVersion,
      FormatBool(r.APIResource.Namespaced), r.APIResource.Kind,
      FormatBool(r.Preferred)>>

\* The data row at line i of the output is the row of this record.
RecordOfLine(i) ==
    result.resources[Cardinality({j \in 1..i : out[j].kind = "row"})]

---------------------------------------------------------------------------
(* What the preferred criterion is about *)

\* The record's group version is the preferred version of its group.
IsGroupPreferredVersion(r) ==
    r.APIGroup.PreferredVersion.GroupVersion = r.APIGroupVersion

\* The preferred-version index names the record's version for its resource.
IsIndexPreferredVersion(r) ==
    /\ IndexKeyOf(r) \in DOMAIN preferredResources
    /\ preferredResources[IndexKeyOf(r)] = VersionOf(r.APIGroupVersion)

\* A record of this resource under this group version was returned.
IsReturnedAs(r) ==
    \E i \in 1..Len(result.resources) :
        /\ result.resources[i].APIGroup = r.APIGroup
        /\ result.resources[i].APIGroupVersion = r.APIGroupVersion
        /\ result.resources[i].APIResource.Name = r.APIResource.Name

\* The enumerated base resources of the groups that pass the group filter,
\* when the preferred criterion is the only other criterion set.
PreferredCandidates ==
    SelectSeq(FullEnumeration,
              LAMBDA r : /\ ~IsSubresourceName(r.APIResource.Name)
                         /\ ~excludeGroup(r.APIGroup, options))

PreferredFilterRan ==
    /\ pc = "returned"
    /\ result.err = NoError
    /\ options.preferredChanged

---------------------------------------------------------------------------
(* The command: complete, validate, runAPIResourceVersions *)

errWrongOutput == "output must be one of: (wide, name)"
errSortBy == "sort-by must be one of: (name, kind)"
errUsage == "unexpected arguments"
errDiscoveryClient == "couldn't create discovery client"

\* validate with the sort key checked before the output format.
validate_SortByFirst(o) ==
    IF Len(o.SortBy) > 0 /\ o.SortBy \notin {"", nameSortBy, kindSortBy}
    THEN errSortBy
    ELSE IF o.Output \notin {"", wideOutput, nameOutput}
    THEN errWrongOutput
    ELSE NoError

\* apiResourceVersionsOptions.validate: the error it returns.  Output and
\* SortBy are whole strings here, so len(o.SortBy) > 0 is SortBy # "".
validate(o) ==
    IF o.Output \notin {"", wideOutput, nameOutput}
    THEN errWrongOutput
    ELSE IF o.SortBy # "" /\ o.SortBy \notin {"", nameSortBy, kindSortBy}
    THEN errSortBy
    ELSE NoError

\* The command line of a run: the positional arguments and the flags given.
CommandLine(args, changed) ==
    [isCall |-> TRUE, fn |-> "Run", args |-> args, changed |-> changed]

\* complete that accepts positional arguments.
complete_AcceptsArguments ==
    /\ pc = "cmd"
    /\ \E client \in {Failed, Answered(<<>>)} :
          IF client.err
          THEN /\ runErr' = errDiscoveryClient
               /\ pc' = "exit"
               /\ UNCHANGED options
          ELSE /\ options' = [options EXCEPT
                                 !.groupChanged = "api-group" \in arg.changed,
                                 !.nsChanged = "namespaced" \in arg.changed,
                                 !.preferredChanged = "preferred" \in arg.changed]
               /\ pc' = "completed"
               /\ UNCHANGED runErr
    /\ UNCHANGED <<calls, groupList, preferredResources, gi, vi, groupResources,
                   resources, served, result, out, flushes, arg, ret>>

\* CheckErr(options.complete(configFlags, cmd, args)): positional arguments
\* are a usage error; the discovery client is created, which can fail; the
\* changed flags are recorded.  CheckErr ends the command on an error.
complete ==
    /\ pc = "cmd"
    /\ IF Len(arg.args) # 0
       THEN /\ runErr' = errUsage
            /\ pc' = "exit"
            /\ UNCHANGED options
       ELSE \E client \in {Failed, Answered(<<>>)} :
               IF client.err
               THEN /\ runErr' = errDiscoveryClient
                    /\ pc' = "exit"
                    /\ UNCHANGED options
               ELSE /\ options' = [options EXCEPT
                                      !.groupChanged = "api-group" \in arg.changed,
                                      !.nsChanged = "namespaced" \in arg.changed,
                                      !.preferredChanged = "preferred" \in arg.changed]
                    /\ pc' = "completed"
                    /\ UNCHANGED runErr
    /\ UNCHANGED <<calls, groupList, preferredResources, gi, vi, groupResources,
                   resources, served, result, out, flushes, arg, ret>>

\* CheckErr(options.validate()): an error ends the command, otherwise
\* runAPIResourceVersions starts.
callValidate ==
    /\ pc = "completed"
    /\ ret' = Result(validate(options))
    /\ IF validate(options) # NoError
       THEN runErr' = validate(options) /\ pc' = "exit"
       ELSE pc' = "start" /\ UNCHANGED runErr
    /\ UNCHANGED <<options, calls, groupList, preferredResources, gi, vi,
                   groupResources, resources, served, result, out, flushes, arg>>

\* The Run function of the command.
Run ==
    \/ complete
    \/ callValidate
    \/ runAPIResourceVersions

\* The values --output and --sort-by can be given, valid or not.
OutputValues == {"", wideOutput, nameOutput, "json"}
SortByValues == {"", nameSortBy, kindSortBy, "age"}

\* The command lines: no positional argument or one, and the flags given.
CommandLines ==
    {CommandLine(args, changed) :
        args \in {<<>>, <<"pods">>},
        changed \in {{}, {"api-group"}}}

\* The options after flag parsing: --api-group, when given, names the core
\* group.
ParsedOptions ==
    {[newAPIResourceVersionsOptions EXCEPT !.Output = o, !.SortBy = k] :
        o \in OutputValues, k \in SortByValues}

CmdInit ==
    /\ arg \in CommandLines
    /\ options \in ParsedOptions
    /\ pc = "cmd"
    /\ calls = <<>>
    /\ groupList = <<>>
    /\ preferredResources = EmptyMap
    /\ gi = 0
    /\ vi = 0
    /\ groupResources = <<>>
    /\ resources = <<>>
    /\ served = <<>>
    /\ result = [resources |-> <<>>, err |-> NoError]
    /\ runErr = NoError
    /\ out = <<>>
    /\ flushes = 0
    /\ ret = NoCall

SpecCmd == CmdInit /\ [][Run]_vars

\* C17: validate returns no error exactly when Output is one of "", wide,
\* name and SortBy is one of "", name, kind; an invalid Output gives
\* errWrongOutput whatever SortBy is, an invalid SortBy alone gives
\* errSortBy; the call leaves the options as they were.
C17_ValidateAcceptsExactlyTheSupportedValues ==
    [][pc = "completed" =>
          LET outputOK == options.Output \in {"", "wide", "name"}
              sortByOK == options.SortBy \in {"", "name", "kind"}
          IN  /\ options' = options
              /\ ret'.isCall
              /\ (ret'.val = NoError) <=> (outputOK /\ sortByOK)
              /\ ~outputOK => ret'.val = errWrongOutput
              /\ (outputOK /\ ~sortByOK) => ret'.val = errSortBy]_vars

\* C17 witness: validate was called with both values unsupported and
\* returned the output error.
C17_Witness ==
    /\ pc = "exit"
    /\ ret = Result(errWrongOutput)
    /\ options.Output = "json"
    /\ options.SortBy = "age"

\* The configuration of the run is in error: positional arguments, an
\* unsupported output format or an unsupported sort key.
ConfigurationError ==
    \/ Len(arg.args) # 0
    \/ options.Output \notin {"", "wide", "name"}
    \/ options.SortBy \notin {"", "name", "kind"}

\* C18: in a command run with a configuration error no call is ever made
\* on the discovery client and nothing is ever written to the output sink,
\* and once complete and validate are over the error has been reported.
C18_ConfigurationErrorsBeforeAnyWork ==
    ConfigurationError =>
        /\ calls = <<>>
        /\ out = <<>>
        /\ flushes = 0
        /\ pc \in {"cmd", "completed", "exit"}
        /\ pc = "exit" => runErr \in {errUsage, errWrongOutput, errSortBy,
                                      errDiscoveryClient}

\* C18 witness: the command ended on an unsupported sort key with the
\* discovery client created and never called.
C18_Witness ==
    /\ pc = "exit"
    /\ runErr = errSortBy
    /\ options.groupChanged
    /\ calls = <<>>
    /\ out = <<>>

---------------------------------------------------------------------------
(* splitResourceName on its own *)

\* C19: for a name without "/" splitResourceName returns the whole name as
\* base and no subresource; for a name with "/" the base is the part before
\* the first "/" and the subresource is everything after that first "/",
\* further "/" included, so that base + "/" + subresource is the name.
C19_SplitAtFirstSlash ==
    (ret.isCall /\ arg.fn = "splitResourceName") =>
        LET name == arg.gr.APIResource.Name
            split == ret.val
        IN  IF \A i \in 1..Len(name) : name[i] # Slash
            THEN split.base = name /\ split.sub.isNil
            ELSE /\ ~split.sub.isNil
                 /\ \A i \in 1..Len(split.base) : split.base[i] # Slash
                 /\ split.base \o <<Slash>> \o split.sub.val = name

\* C19 witness: a name with two "/" was split at the first one.
C19_Witness ==
    /\ ret.isCall
    /\ arg.fn = "splitResourceName"
    /\ arg.gr.APIResource.Name = <<"p", Slash, Slash>>
    /\ ret.val.base = <<"p">>
    /\ ret.val.sub = PtrString(<<Slash>>)

---------------------------------------------------------------------------
(* getPreferredResourceVersions on its own *)

\* The summaries ServerPreferredResources can answer: per entry a
\* group-version string and any list of resources.
IndexSummaryEntries ==
    {[GroupVersion |-> gv, APIResources |-> l] :
        gv \in SummaryGroupVersions, l \in ResourceLists}
IndexSummaries == UNION {[1..k -> IndexSummaryEntries] : k \in 0..MaxSummary}

IndexCalls ==
    {[fn |-> "getPreferredResourceVersions", answer |-> a] :
        a \in {Failed} \cup {Answered(q) : q \in IndexSummaries}}

IndexInit ==
    /\ NoRun
    /\ arg \in IndexCalls
    /\ ret = NoCall

CallGetPreferredResourceVersions ==
    /\ arg.fn = "getPreferredResourceVersions"
    /\ ret = NoCall
    /\ ret' = Result(getPreferredResourceVersions(arg.answer))
    /\ UNCHANGED <<runVars, arg>>

IndexNext == CallGetPreferredResourceVersions

SpecIndex == IndexInit /\ [][IndexNext]_vars

\* The group part of a well-formed group-version string.
GroupOf(gv) ==
    IF \E i \in 1..Len(gv) : gv[i] = Slash
    THEN SubSeq(gv, 1, (CHOOSE i \in 1..Len(gv) : gv[i] = Slash) - 1)
    ELSE <<>>

\* The entries of a summary that list a base resource under this key.
EntriesListing(summary, key) ==
    {i \in 1..Len(summary) :
        \E j \in 1..Len(summary[i].APIResources) :
            LET name == summary[i].APIResources[j].Name IN
            /\ ~IsSubresourceName(name)
            /\ name \o <<Dot>> \o GroupOf(summary[i].GroupVersion) = key}

\* C20: the map getPreferredResourceVersions returns has a key
\* base.group for exactly the descriptors of the summary whose name has no
\* "/", and the value of a key is the version of the last entry of the
\* summary that lists that base resource for that group.
C20_IndexOfBaseResourcesLastEntryWins ==
    (ret.isCall /\ arg.fn = "getPreferredResourceVersions"
        /\ ~arg.answer.err /\ ret.val.err = "nil") =>
        LET summary == arg.answer.val
            index == ret.val.val
            keys == UNION {
                        {summary[i].APIResources[j].Name \o <<Dot>>
                             \o GroupOf(summary[i].GroupVersion) :
                         j \in {k \in 1..Len(summary[i].APIResources) :
                                   ~IsSubresourceName(summary[i].APIResources[k].Name)}} :
                        i \in 1..Len(summary)}
        IN  /\ DOMAIN index = keys
            /\ \A key \in keys :
                   LET last == CHOOSE i \in EntriesListing(summary, key) :
                                   \A k \in EntriesListing(summary, key) : k <= i
                   IN  index[key] = VersionOf(summary[last].GroupVersion)

\* C20 witness: a summary listed one base resource of one group under two
\* versions and a subresource; the index holds the later version and one key.
C20_Witness ==
    /\ ret.isCall
    /\ arg.fn = "getPreferredResourceVersions"
    /\ ~arg.answer.err
    /\ Len(arg.answer.val) = 2
    /\ arg.answer.val[1] = [GroupVersion |-> <<"a", Slash, "1">>,
                            APIResources |-> <<Pods, PodsStatus>>]
    /\ arg.answer.val[2] = [GroupVersion |-> <<"a", Slash, "2">>,
                            APIResources |-> <<PodsStatus, Pods>>]
    /\ ret.val.err = "nil"
    /\ DOMAIN ret.val.val = {<<"p", Dot, "a">>}
    /\ ret.val.val[<<"p", Dot, "a">>] = <<"2">>

---------------------------------------------------------------------------
(* getGroupResources at the preferred-resources summary *)

\* getGroupResources has listed the groups and the discovery client is
\* about to answer ServerPreferredResources with the answer in arg.
PreferredInit ==
    /\ options = newAPIResourceVersionsOptions
    /\ pc = "preferred"
    /\ calls = <<Call("Invalidate", <<>>), Call("ServerGroups", <<>>)>>
    /\ groupList \in {q \in GroupLists : Len(q) = 1}
    /\ preferredResources = EmptyMap
    /\ gi = 0
    /\ vi = 0
    /\ groupResources = <<>>
    /\ resources = <<>>
    /\ served = <<>>
    /\ result = [resources |-> <<>>, err |-> NoError]
    /\ runErr = NoError
    /\ out = <<>>
    /\ flushes = 0
    /\ arg \in IndexCalls
    /\ ret = NoCall

PreferredNext == ServerPreferredResourcesAnswers(arg.answer)

SpecPreferred == PreferredInit /\ [][PreferredNext]_vars

\* A summary holds a group-version string that is not group/version: it
\* has more than one "/".
HasUnparsableGroupVersion(summary) ==
    \E i \in 1..Len(summary) :
        Cardinality({j \in 1..Len(summary[i].GroupVersion) :
                        summary[i].GroupVersion[j] = Slash}) > 1

\* C21: when a group-version string of the summary does not parse,
\* getPreferredResourceVersions returns an error and no index, whatever
\* entries came before, and getGroupResources returns an error with no
\* record and without fetching any resource list.
C21_UnparsableSummaryAbortsTheBuild ==
    (~arg.answer.err /\ HasUnparsableGroupVersion(arg.answer.val)) =>
        /\ getPreferredResourceVersions(arg.answer).err # NoError
        /\ getPreferredResourceVersions(arg.answer).val = EmptyMap
        /\ pc # "preferred" =>
               /\ pc = "returned"
               /\ result.err = errPreferred
               /\ result.resources = <<>>
               /\ preferredResources = EmptyMap

\* C21 witness: the first entry of the summary parsed and listed a base
\* resource, the second did not parse, and getGroupResources returned the
\* error.
C21_Witness ==
    /\ pc = "returned"
    /\ ~arg.answer.err
    /\ Len(arg.answer.val) = 2
    /\ arg.answer.val[1] = [GroupVersion |-> <<"a", Slash, "1">>,
                            APIResources |-> <<Pods>>]
    /\ arg.answer.val[2].GroupVersion = <<"a", Slash, "1", Slash, "2">>
    /\ result.err = errPreferred
    /\ result.resources = <<>>

---------------------------------------------------------------------------
(* The calls getGroupResources makes on the discovery client *)

FetchCall == "ServerResourcesForGroupVersion"

\* The positions of the calls of a function in the call log.
CallsOf(fn) == {i \in 1..Len(calls) : calls[i].fn = fn}

\* A group-version string is that of a version of a listed group of this name.
IsVersionOfGroupNamed(gv, name) ==
    \E i \in 1..Len(groupList) :
        /\ groupList[i].Name = name
        /\ \E j \in 1..Len(groupList[i].Versions) :
               groupList[i].Versions[j].GroupVersion = gv

\* C22: with an explicit group filter every ServerResourcesForGroupVersion
\* call is for a version of a group whose name equals the filter, so the
\* fetch that fails, if one does, is not one of an excluded group.
C22_FetchOnlyInFilteredGroup ==
    options.groupChanged =>
        \A i \in CallsOf(FetchCall) :
            IsVersionOfGroupNamed(calls[i].gv, options.APIGroup)

\* C22 witness: two groups were listed, the filter named the second, and
\* the enumeration returned after fetching versions of that group only.
C22_Witness ==
    /\ pc = "returned"
    /\ result.err = NoError
    /\ options.groupChanged
    /\ Len(groupList) = 2
    /\ groupList[1].Name # options.APIGroup
    /\ groupList[2].Name = options.APIGroup
    /\ Cardinality(CallsOf(FetchCall)) = 2

\* C23: with Cached false Invalidate is the first call on the discovery
\* client and is called once; with Cached true it is never called.
C23_InvalidateOnceAndFirst ==
    /\ options.Cached => CallsOf("Invalidate") = {}
    /\ ~options.Cached =>
           /\ calls # <<>> => CallsOf("Invalidate") = {1}
           /\ pc # "start" => CallsOf("Invalidate") = {1}

\* C23 witness: a run with Cached true made every kind of call but
\* Invalidate.
C23_Witness ==
    /\ pc = "returned"
    /\ options.Cached
    /\ CallsOf("ServerGroups") # {}
    /\ CallsOf("ServerPreferredResources") # {}
    /\ CallsOf(FetchCall) # {}
    /\ CallsOf("Invalidate") = {}

\* C23 witness of the other case: with Cached false Invalidate came first
\* and the other calls followed.
C23_WitnessInvalidated ==
    /\ pc = "returned"
    /\ ~options.Cached
    /\ CallsOf("Invalidate") = {1}
    /\ CallsOf(FetchCall) # {}

\* The call log without the Invalidate calls.
DiscoveryCalls == SelectSeq(calls, LAMBDA c : c.fn # "Invalidate")

\* C27: the discovery calls are ServerGroups, then ServerPreferredResources,
\* then the ServerResourcesForGroupVersion calls; when ServerGroups or
\* ServerPreferredResources fails it is the last call made and no record is
\* returned; no record exists before the index is built and the index does
\* not change once the first resource list has been fetched.
C27_DiscoveryCallOrder ==
    /\ [](/\ \A i \in 1..Len(DiscoveryCalls) :
                DiscoveryCalls[i].fn =
                    IF i = 1 THEN "ServerGroups"
                    ELSE IF i = 2 THEN "ServerPreferredResources"
                    ELSE FetchCall
          /\ result.err = errServerGroups =>
                 /\ [i \in 1..Len(DiscoveryCalls) |-> DiscoveryCalls[i].fn]
                        = <<"ServerGroups">>
                 /\ result.resources = <<>>
          /\ result.err = errPreferred =>
                 /\ [i \in 1..Len(DiscoveryCalls) |-> DiscoveryCalls[i].fn]
                        = <<"ServerGroups", "ServerPreferredResources">>
                 /\ result.resources = <<>>
          /\ CallsOf("ServerPreferredResources") = {} =>
                 /\ groupResources = <<>>
                 /\ resources = <<>>
                 /\ result.resources = <<>>)
    /\ [][CallsOf(FetchCall) # {} => preferredResources' = preferredResources]_vars

\* C27 witness: ServerPreferredResources failed after ServerGroups had
\* listed groups, and the enumeration returned without a fetch.
C27_Witness ==
    /\ pc = "returned"
    /\ result.err = errPreferred
    /\ Len(groupList) = 2
    /\ CallsOf(FetchCall) = {}
    /\ result.resources = <<>>

\* C27 witness of the full order: all three kinds of call were made and
\* records were returned.
C27_WitnessFetched ==
    /\ pc = "returned"
    /\ result.err = NoError
    /\ Len(DiscoveryCalls) >= 4
    /\ Len(result.resources) >= 2
    /\ preferredResources # EmptyMap

---------------------------------------------------------------------------
(* The end of a run on a sink that can fail *)

MaxRows == 3

\* A group with two versions, the first one preferred.
AppsGroup ==
    APIGroup(AppsGroupName,
             <<GroupVersionForDiscovery(<<"a", Slash, "1">>, <<"1">>),
               GroupVersionForDiscovery(<<"a", Slash, "2">>, <<"2">>)>>,
             GroupVersionForDiscovery(<<"a", Slash, "1">>, <<"1">>))
CoreGroup ==
    APIGroup(CoreGroupName, <<GroupVersionForDiscovery(<<"1">>, <<"1">>)>>,
             GroupVersionForDiscovery(<<"1">>, <<"1">>))

\* Records as getGroupResources returns them.
PrintRecords ==
    {groupResource(CoreGroup, <<"1">>, [Pods EXCEPT !.Group = CoreGroupName], TRUE),
     groupResource(CoreGroup, <<"1">>, [Nodes EXCEPT !.Group = CoreGroupName], TRUE),
     groupResource(AppsGroup, <<"a", Slash, "1">>,
                   [Pods EXCEPT !.Group = AppsGroupName], TRUE),
     groupResource(AppsGroup, <<"a", Slash, "2">>,
                   [Pods EXCEPT !.Group = AppsGroupName], FALSE)}

\* What getGroupResources returned: an error and no records, or records.
EnumerationResults ==
    {[resources |-> <<>>, err |-> e] :
        e \in {errServerGroups, errPreferred, errResources}}
    \cup {[resources |-> q, err |-> NoError] :
             q \in InjectiveSeqs(PrintRecords, 0, MaxRows)}

PrintOptions ==
    {[newAPIResourceVersionsOptions EXCEPT
         !.Output = o, !.NoHeaders = h, !.SortBy = k] :
        o \in {"", wideOutput, nameOutput}, h \in BOOLEAN, k \in {"", nameSortBy}}

Sinks == {Sink(f, b) : f \in SUBSET (0..MaxRows), b \in BOOLEAN}

PrintInit ==
    /\ options \in PrintOptions
    /\ pc = "returned"
    /\ calls = <<>>
    /\ groupList = <<>>
    /\ preferredResources = EmptyMap
    /\ gi = 0
    /\ vi = 0
    /\ groupResources = <<>>
    /\ resources = <<>>
    /\ served = <<>>
    /\ result \in EnumerationResults
    /\ runErr = NoError
    /\ out = <<>>
    /\ flushes = 0
    /\ arg \in {[isCall |-> TRUE, fn |-> "printGroupResources", sink |-> s] :
                   s \in Sinks}
    /\ ret = NoCall

PrintNext ==
    \/ checkResources
    \/ printGroupResourcesOnto(arg.sink)

SpecPrint == PrintInit /\ [][PrintNext]_vars


\* The run has ended: it returned, or a failing flush made it panic.
RunEnded == pc \in {"done", "panic"}

\* The run ended inside printGroupResources, not before it.
EndedInPrint ==
    /\ RunEnded
    /\ result.err = NoError
    /\ ~(Len(result.resources) = 0 /\ options.Output # nameOutput)

\* C24 as stated: every exit path of the run, the ones ending in an
\* enumeration failure or in "no resources found" included, has flushed
\* the output sink exactly once.
C24_FlushedOnceOnEveryExit == RunEnded => flushes = 1

\* C24, amended: the sink is flushed exactly once on every exit path of
\* printGroupResources (success, header write failure, row failures, and
\* the flush that fails), and never when the run ends before
\* printGroupResources, on an enumeration failure or on "no resources
\* found"; no step before the end of the run flushes.
C24_FlushedOnceOnEveryExitOfPrint ==
    /\ RunEnded => flushes = (IF EndedInPrint THEN 1 ELSE 0)
    /\ ~RunEnded => flushes = 0

C24_Witness ==
    /\ pc = "done"
    /\ runErr = errPrintHeaders
    /\ flushes = 1

C24_WitnessNeverFlushed ==
    /\ pc = "done"
    /\ runErr = errResources
    /\ flushes = 0

\* The rows of the sorted records whose write does not fail, in order.
RECURSIVE RowsExpected(_, _, _)
RowsExpected(q, i, failing) ==
    IF i > Len(q) THEN <<>>
    ELSE (IF i \in failing THEN <<>> ELSE <<printRow(q[i], options.Output)>>)
         \o RowsExpected(q, i + 1, failing)

\* C25: a row that cannot be written does not stop the printing: every
\* record is attempted once, in sorted order, the rows that can be written
\* are all written, and the error returned aggregates exactly the rows
\* that failed (no error when none failed).
C25_RowFailuresAreCollected ==
    (EndedInPrint /\ runErr # errPrintHeaders) =>
        LET sorted == result.resources
            n == Len(sorted)
            failed == arg.sink.failing \cap (1..n)
            errs == ret.val
        IN  /\ PrintedRows = RowsExpected(sorted, 1, arg.sink.failing)
            /\ Len(errs) = Cardinality(failed)
            /\ {errs[k].row : k \in 1..Len(errs)} = failed
            /\ \A k \in 1..Len(errs) :
                  /\ errs[k].err = errPrintRow
                  /\ errs[k].resource = sorted[errs[k].row]
                  /\ \A l \in 1..Len(errs) : k < l => errs[k].row < errs[l].row
            /\ Len(PrintedRows) + Len(errs) = n
            /\ runErr = (IF failed = {} THEN NoError ELSE errAggregate)

C25_Witness ==
    /\ EndedInPrint
    /\ runErr = errAggregate
    /\ Len(result.resources) = 3
    /\ arg.sink.failing = {2}
    /\ Len(PrintedRows) = 2
    /\ Len(ret.val) = 1

\* C28: a run that ends with "no resources found" or with an enumeration
\* error has written nothing: no header and no row.
C28_NothingWrittenOnEarlyError ==
    (RunEnded /\ runErr \in {errNoResourcesFound, errServerGroups,
                             errPreferred, errResources})
        => out = <<>>

C28_Witness ==
    /\ pc = "done"
    /\ runErr = errNoResourcesFound
    /\ ~options.NoHeaders
    /\ out = <<>>

C28_WitnessEnumeration ==
    /\ pc = "done"
    /\ runErr = errPreferred
    /\ out = <<>>

---------------------------------------------------------------------------
(* The criteria taken together and one at a time *)

Criteria == {"group", "namespaced", "verbs", "categories", "preferred"}

\* The options that set criterion c as o does and leave the others unset.
Only(c, o) ==
    LET d == newAPIResourceVersionsOptions IN
    IF c = "group"
    THEN [d EXCEPT !.groupChanged = o.groupChanged, !.APIGroup = o.APIGroup]
    ELSE IF c = "namespaced"
    THEN [d EXCEPT !.nsChanged = o.nsChanged, !.Namespaced = o.Namespaced]
    ELSE IF c = "verbs"
    THEN [d EXCEPT !.Verbs = o.Verbs]
    ELSE IF c = "categories"
    THEN [d EXCEPT !.Categories = o.Categories]
    ELSE [d EXCEPT !.preferredChanged = o.preferredChanged,
                   !.Preferred = o.Preferred]

\* A record of a fetched list is returned under the options o.
Kept(r, o) == ~excludeGroup(r.APIGroup, o) /\ ~excludeGroupResource(r, o)

\* C26: a record is returned under a combination of criteria (group,
\* namespaced, verbs, categories, preferred) exactly when it is returned
\* under each of the criteria alone, and evaluating a predicate changes
\* neither the record, nor the criteria, nor anything of the run.
C26_CriteriaComposeAsIntersection ==
    /\ [](ResourceFiltered =>
            \A g \in GroupFilterOptions :
                LET o == [arg.options EXCEPT !.groupChanged = g.groupChanged,
                                             !.APIGroup = g.APIGroup]
                    r == arg.resource
                IN  (~ret.val /\ ~excludeGroup(r.APIGroup, g))
                        <=> \A c \in Criteria : Kept(r, Only(c, o)))
    /\ [][arg' = arg /\ runVars' = runVars]_vars

\* C26 witness: a record that passes the namespaced and the verbs criteria
\* and fails the categories criterion is left out under the three together.
C26_Witness ==
    /\ ResourceFiltered
    /\ ret.val
    /\ arg.options.nsChanged
    /\ Len(arg.options.Verbs) > 0
    /\ Len(arg.options.Categories) > 0
    /\ ~excludeGroupResource(arg.resource, Only("namespaced", arg.options))
    /\ ~excludeGroupResource(arg.resource, Only("verbs", arg.options))
    /\ excludeGroupResource(arg.resource, Only("categories", arg.options))

\* C26 witness: a record kept under four criteria together.
C26_WitnessKept ==
    /\ ResourceFiltered
    /\ ~ret.val
    /\ arg.options.nsChanged
    /\ arg.options.preferredChanged
    /\ Len(arg.options.Verbs) > 0
    /\ Len(arg.options.Categories) > 0

---------------------------------------------------------------------------
(* One preferred version per resource *)

\* Group names are distinct, the versions listed in a group are distinct,
\* and the names in the list fetched for a group version are distinct.
DistinctTopology ==
    /\ \A i, j \in 1..Len(groupList) :
          i # j => groupList[i].Name # groupList[j].Name
    /\ \A i \in 1..Len(groupList) :
          LET vs == groupList[i].Versions IN
          \A j, k \in 1..Len(vs) :
              j # k => /\ vs[j].Version # vs[k].Version
                       /\ vs[j].GroupVersion # vs[k].GroupVersion
    /\ \A i \in 1..Len(served) :
          LET l == served[i].APIResources IN
          \A j, k \in 1..Len(l) : j # k => l[j].Name # l[k].Name

\* At most one record of a sequence is preferred for each group and base
\* resource name.
OnePreferredPerResource(q) ==
    \A i, j \in 1..Len(q) :
        (/\ i # j
         /\ q[i].APIGroup.Name = q[j].APIGroup.Name
         /\ BaseNameOf(q[i].APIResource.Name) = BaseNameOf(q[j].APIResource.Name))
            => ~(q[i].Preferred /\ q[j].Preferred)

\* C29: with distinct group names, distinct versions in a group and
\* distinct resource names in a version's list, the records enumerated
\* hold at most one record with preferred = TRUE for each group and base
\* resource name, whatever the preferred-resources summary listed; so does
\* the result of the unfiltered enumeration.
C29_AtMostOnePreferredPerResource ==
    DistinctTopology =>
        /\ OnePreferredPerResource(resources)
        /\ OnePreferredPerResource(groupResources)
        /\ OnePreferredPerResource(result.resources)

\* C29 witness: the unfiltered enumeration returned a resource under two
\* versions of a group, preferred under the second one only.
C29_Witness ==
    /\ pc = "returned"
    /\ result.err = NoError
    /\ options = newAPIResourceVersionsOptions
    /\ DistinctTopology
    /\ \E i, j \in 1..Len(result.resources) :
          LET a == result.resources[i]
              b == result.resources[j]
          IN  /\ i < j
              /\ a.APIGroup.Name = b.APIGroup.Name
              /\ a.APIResource.Name = b.APIResource.Name
              /\ a.APIGroupVersion # b.APIGroupVersion
              /\ ~a.Preferred
              /\ b.Preferred

---------------------------------------------------------------------------
(* The enumeration over any answer of ServerGroups *)

\* The versions a discovery client can list in a group: the group-version
\* string and the version are two fields of the answer, and nothing makes
\* them agree with each other or with the group's name.
AnyGroupVersionStrings ==
    {<<"1">>, <<"a", Slash, "1">>, <<"a", Slash, "2">>, <<"b", Slash, "1">>,
     <<"a", Slash, "1", Slash, "2">>}
AnyVersions ==
    {GroupVersionForDiscovery(gv, v) : gv \in AnyGroupVersionStrings, v \in VersionNames}
AnyVersionLists == InjectiveSeqs(AnyVersions, 1, 2)

\* ServerGroups answers with one group of any content.
AnyGroupLists ==
    {<<APIGroup(n, vl, vl[1])>> : n \in GroupNames, vl \in AnyVersionLists}

\* The preferred-version index an answer of ServerPreferredResources gives.
TopologyIndexes == {EmptyMap, MapSet(EmptyMap, <<"p", Dot, "a">>, <<"1">>)}

\* The state of getGroupResources when its loop over the groups starts.
TopologyInit ==
    /\ options \in WithGroup(newAPIResourceVersionsOptions)
    /\ pc = "loop"
    /\ calls = <<Call("Invalidate", <<>>), Call("ServerGroups", <<>>),
                 Call("ServerPreferredResources", <<>>)>>
    /\ groupList \in AnyGroupLists
    /\ preferredResources \in TopologyIndexes
    /\ gi = 1
    /\ vi = 0
    /\ groupResources = <<>>
    /\ resources = <<>>
    /\ served = <<>>
    /\ result = [resources |-> <<>>, err |-> NoError]
    /\ runErr = NoError
    /\ out = <<>>
    /\ flushes = 0
    /\ arg = NoCall
    /\ ret = NoCall

TopologyNext ==
    \/ SkipGroup
    \/ EnterGroup
    \/ FetchVersion
    \/ LeaveGroup
    \/ ReturnResources

SpecTopology == TopologyInit /\ [][TopologyNext]_vars

\* The entries of a record's group that the record's group version names.
VersionsOfRecord(r) ==
    {r.APIGroup.Versions[i] : i \in
        {j \in 1..Len(r.APIGroup.Versions) :
            r.APIGroup.Versions[j].GroupVersion = r.APIGroupVersion}}

\* fullname returns for the record, and the version it prints is the
\* version the preferred flag was computed with.
NameIsPrintable(r) ==
    LET groupVersion == ParseGroupVersion(r.APIGroupVersion) IN
    /\ ~groupVersion.err
    /\ groupVersion.Group = r.APIGroup.Name
    /\ ~fullname(r).panic
    /\ \A v \in VersionsOfRecord(r) : groupVersion.Version = v.Version

\* C30: whatever the discovery client answers, every record that
\* getGroupResources returns has a group version that parses, with the
\* record's group name for group, so that fullname does not panic, and the
\* version fullname prints is the version that the preferred flag was
\* computed with.
C30_ReturnedRecordsArePrintable ==
    (pc = "returned" /\ result.err = NoError) =>
        AllOf(result.resources, NameIsPrintable)

\* Every version of every group listed has the group-version string that
\* the group's name and the version form.
WellFormedTopology ==
    \A i \in 1..Len(groupList) :
        \A j \in 1..Len(groupList[i].Versions) :
            LET v == groupList[i].Versions[j] IN
            v.GroupVersion = GroupVersionString(groupList[i].Name, v.Version)

\* The records returned for a well-formed answer of ServerGroups are
\* printable.
ReturnedRecordsOfWellFormedTopologyArePrintable ==
    (pc = "returned" /\ result.err = NoError /\ WellFormedTopology) =>
        AllOf(result.resources, NameIsPrintable)

\* A well-formed topology with two versions returned records.
WellFormedTopologyReturned ==
    /\ pc = "returned"
    /\ result.err = NoError
    /\ WellFormedTopology
    /\ Len(groupList[1].Versions) = 2
    /\ Len(result.resources) >= 2

===========================================================================
